---- MODULE Spec2Model ----
(***************************************************************************)
(* A model of the track-monitor racing bot: the race aggregator            *)
(* (racing/aggregator.py), the EV tracker and its Google sheet             *)
(* (racing/tracker.py) and the bot's tracking and results loops (bot.py).  *)
(*                                                                         *)
(* Numbers.  Decimal prices are integers in hundredths (250 is 2.50).      *)
(* Probabilities and EVs are fixed point with SCALE units per 1.0, so an   *)
(* EV "percent" is an integer in hundredths of a percent.  Commission and  *)
(* the retention factor are integers in percent.  Money (P/L, cumulative   *)
(* totals) is an integer number of cents.  A python None is the empty      *)
(* sequence, a present value x is <<x>>; an empty sheet cell is <<>>.      *)
(***************************************************************************)
EXTENDS Integers, Sequences, FiniteSets, TLC

(***************************************************************************)
(* Optional values and small helpers                                       *)
(***************************************************************************)
None == << >>

Some(x) == << x >>

Val(o) == o[1]

\* python truthiness of an optional number: None and 0 are falsy
Falsy(o) == o = None \/ Val(o) = 0

Max(a, b) == IF a >= b THEN a ELSE b

Min(a, b) == IF a <= b THEN a ELSE b

Abs(a) == IF a >= 0 THEN a ELSE 0 - a

\* a / b rounded to the nearest integer, halves away from zero (python's
\* round() on the floats the code computes; the inputs used have no ties)
RoundDiv(a, b) ==
  IF a >= 0 THEN (2 * a + b) \div (2 * b)
  ELSE 0 - ((2 * (0 - a) + b) \div (2 * b))

(***************************************************************************)
(* config.py                                                               *)
(***************************************************************************)
SCALE == 100 * 100

RETENTION_FACTOR == 70

States == {"NSW", "ACT", "VIC", "QLD", "SA", "WA", "TAS", "NT"}

\* a table without the ten percent jurisdictions
BETFAIR_COMMISSION_flat(state) == 8

\* BETFAIR_COMMISSION.get(state, BETFAIR_COMMISSION['default'])
BETFAIR_COMMISSION(state) ==
  CASE state \in {"NSW", "ACT"} -> 10
    [] state \in {"VIC", "QLD", "SA", "WA", "TAS", "NT"} -> 8
    [] OTHER -> 8

(***************************************************************************)
(* racing/aggregator.py: the EV engine                                     *)
(***************************************************************************)
\* an EV whose half-lay mode pays the whole commission cost
calculate_ev_2nd3rd_half_pays_all(bookmaker_odds, lay_win, lay_place, lay_mode, commission) ==
  IF Falsy(bookmaker_odds) \/ Falsy(lay_win) \/ Falsy(lay_place) THEN None
  ELSE
    LET B   == Val(bookmaker_odds)
        Lw  == Val(lay_win)
        Lp  == Val(lay_place)
        p1  == (SCALE * 100) \div Lw
        p_place == (SCALE * 100) \div Lp
        p2or3 == Max(p_place - p1, 0)
        ev  == (p1 * B) \div 100 + (p2or3 * RETENTION_FACTOR) \div 100 - SCALE
        commission_cost == ((SCALE - p1) * commission * (B - 100)) \div (100 * Lw)
    IN  CASE lay_mode \in {"lay", "half_lay"} -> Some(ev - commission_cost)
          [] OTHER                 -> Some(ev)

\* _calculate_ev_2nd3rd
calculate_ev_2nd3rd(bookmaker_odds, lay_win, lay_place, lay_mode, commission) ==
  IF Falsy(bookmaker_odds) \/ Falsy(lay_win) \/ Falsy(lay_place) THEN None
  ELSE
    LET B   == Val(bookmaker_odds)
        Lw  == Val(lay_win)
        Lp  == Val(lay_place)
        p1  == (SCALE * 100) \div Lw
        p_place == (SCALE * 100) \div Lp
        p2or3 == Max(p_place - p1, 0)
        ev  == (p1 * B) \div 100 + (p2or3 * RETENTION_FACTOR) \div 100 - SCALE
        commission_cost == ((SCALE - p1) * commission * (B - 100)) \div (100 * Lw)
    IN  CASE lay_mode = "lay"      -> Some(ev - commission_cost)
          [] lay_mode = "half_lay" -> Some(ev - (commission_cost \div 2))
          [] OTHER                 -> Some(ev)

\* _calculate_ev_free_hit
calculate_ev_free_hit(bookmaker_odds, lay_win, lay_mode, commission) ==
  IF Falsy(bookmaker_odds) \/ Falsy(lay_win) THEN None
  ELSE
    LET B   == Val(bookmaker_odds)
        Lw  == Val(lay_win)
        p_win  == (SCALE * 100) \div Lw
        p_lose == SCALE - p_win
        ev  == (p_win * B) \div 100 + (p_lose * RETENTION_FACTOR) \div 100 - SCALE
        commission_cost == (p_lose * commission * (B - 100)) \div (100 * Lw)
    IN  CASE lay_mode = "lay"      -> Some(ev - commission_cost)
          [] lay_mode = "half_lay" -> Some(ev - (commission_cost \div 2))
          [] OTHER                 -> Some(ev)

\* _calculate_retention_snr
calculate_retention_snr(bookmaker_odds, lay_win, lay_mode, commission) ==
  IF Falsy(bookmaker_odds) \/ Falsy(lay_win) THEN None
  ELSE
    LET B   == Val(bookmaker_odds)
        Lw  == Val(lay_win)
        retention == ((B - 100) * SCALE) \div Lw
        p_lose == SCALE - ((SCALE * 100) \div Lw)
        commission_cost == (p_lose * commission) \div 100
    IN  CASE lay_mode = "lay"      -> Some(retention - commission_cost)
          [] lay_mode = "half_lay" -> Some(retention - (commission_cost \div 2))
          [] OTHER                 -> Some(retention)

(***************************************************************************)
(* racing/aggregator.py: merging the fan-out results                       *)
(***************************************************************************)
\* the bookmaker branches of the fan-out, in the order get_next_race names them
AggBookies ==
  << "sportsbet", "amused", "pointsbet", "betr", "boombet", "palmerbet", "tab", "playup" >>

\* dict.get(key, {}) on a runner map
GetRunner(runners, h) ==
  IF h \in DOMAIN runners THEN runners[h]
  ELSE [win_odds |-> None, scratched |-> FALSE]

\* x.get('win_odds') if not x.get('scratched') else None
QuoteOf(data, h) ==
  LET r == GetRunner(data.runners, h)
  IN  IF r.scratched THEN None ELSE r.win_odds

\* an EV that never asks for the place price
PromoEV_without_place(odds, lay_win, lay_place, promo, lay_mode, commission) ==
  CASE promo = "bonus" -> calculate_retention_snr(odds, lay_win, "lay", commission)
    [] OTHER -> calculate_ev_free_hit(odds, lay_win, lay_mode, commission)

\* the EV of one quote for the promo (aggregator.py 299-326)
PromoEV(odds, lay_win, lay_place, promo, lay_mode, commission) ==
  CASE promo = "free_hit" -> calculate_ev_free_hit(odds, lay_win, lay_mode, commission)
    [] promo = "bonus"    -> calculate_retention_snr(odds, lay_win, "lay", commission)
    [] OTHER -> calculate_ev_2nd3rd(odds, lay_win, lay_place, lay_mode, commission)

\* one composite runner (aggregator.py 275-342)
CompositeRunner(h, bf_runner, data, promo, lay_mode, commission) ==
  LET q(b) == QuoteOf(data[b], h)
      cell(b) == [odds |-> q(b),
                  ev |-> PromoEV(q(b), bf_runner.lay_win, bf_runner.lay_place,
                                 promo, lay_mode, commission)]
  IN  [horse_number |-> h,
       lay_win   |-> bf_runner.lay_win,
       lay_place |-> bf_runner.lay_place,
       sportsbet |-> cell("sportsbet"),
       amused    |-> cell("amused"),
       pointsbet |-> cell("pointsbet"),
       betr      |-> cell("betr"),
       boombet   |-> cell("boombet"),
       palmerbet |-> cell("palmerbet"),
       tab       |-> cell("tab"),
       playup    |-> cell("playup")]

\* the numbers of a set in ascending order (runners.sort by horse_number)
RECURSIVE SortedSeq(_)
SortedSeq(S) ==
  IF S = {} THEN << >>
  ELSE LET m == CHOOSE x \in S : \A y \in S : x <= y
       IN  << m >> \o SortedSeq(S \ {m})

\* a merge that keeps the runners the exchange has removed
combine_runner_data_keep_removed(betfair_data, data, promo, lay_mode, commission) ==
  LET betfair_runners == betfair_data.runners
      order == SortedSeq(DOMAIN betfair_runners)
  IN  [i \in 1..Len(order) |->
         CompositeRunner(order[i], betfair_runners[order[i]], data,
                         promo, lay_mode, commission)]

\* _combine_runner_data
combine_runner_data(betfair_data, data, promo, lay_mode, commission) ==
  LET betfair_runners == betfair_data.runners
      kept == {h \in DOMAIN betfair_runners : betfair_runners[h].status # "REMOVED"}
      order == SortedSeq(kept)
  IN  [i \in 1..Len(order) |->
         CompositeRunner(order[i], betfair_runners[order[i]], data,
                         promo, lay_mode, commission)]

\* a coverage test that forgets the last bookmaker of the list
has_bookie_odds_without_playup(data) ==
  \/ DOMAIN data["sportsbet"].runners # {}
  \/ DOMAIN data["amused"].runners # {}
  \/ DOMAIN data["pointsbet"].runners # {}
  \/ DOMAIN data["betr"].runners # {}
  \/ DOMAIN data["boombet"].runners # {}
  \/ DOMAIN data["palmerbet"].runners # {}
  \/ DOMAIN data["tab"].runners # {}

\* has_bookie_odds (aggregator.py 93-102)
has_bookie_odds(data) ==
  \/ DOMAIN data["sportsbet"].runners # {}
  \/ DOMAIN data["amused"].runners # {}
  \/ DOMAIN data["pointsbet"].runners # {}
  \/ DOMAIN data["betr"].runners # {}
  \/ DOMAIN data["boombet"].runners # {}
  \/ DOMAIN data["palmerbet"].runners # {}
  \/ DOMAIN data["tab"].runners # {}
  \/ DOMAIN data["playup"].runners # {}

\* the snapshot get_next_race returns for a covered candidate (108-144)
BuildSnapshot(next_race, betfair_data, data, promo, lay_mode) ==
  LET state == data["tab"].state
      commission == BETFAIR_COMMISSION(state)
  IN  [venue |-> next_race.venue,
       state |-> state,
       race_number |-> next_race.race_number,
       start_time |-> next_race.start_time,
       seconds_until_start |-> next_race.seconds_until_start,
       promo |-> promo,
       lay_mode |-> lay_mode,
       commission |-> commission,
       runners |-> combine_runner_data(betfair_data, data, promo, lay_mode, commission)]

(***************************************************************************)
(* State                                                                   *)
(***************************************************************************)
VARIABLES
  now,              \* the wall clock, seconds
  catalog,          \* the reference exchange's race list, in catalog order
  call,             \* get_next_race's arguments: promo, lay_mode
  aggPc,            \* get_next_race: "fetch", "loop", "done" (returned) or
                    \* "raised" (left by an exception)
  attempt,          \* reference list fetches made by this call
  upcoming_races,   \* the list the last fetch returned
  idx,              \* the candidate the loop is at (1-based)
  fanLog,           \* per fan-out round: the candidate and who returned runners
  fanOut,           \* the last fan-out round: what the sources held, where an
                    \* exception was raised, and what gather() handed back
  aggResult,        \* what get_next_race returned: None or <<snapshot>>
  lookup,           \* one find_race call of a bookmaker source: the source,
                    \* its catalog, the query and, once made, the result
  tracked_this_session, \* RacingBot._tracked_this_session
  tracked_races,    \* EVTracker._tracked_races
  sheets,           \* the spreadsheet: sheet name -> rows below the header
  nextPromo,        \* tracking_loop: the promo its next _track_promo call takes
  pending,          \* results_loop: the pending entries it still has to process
  official,         \* the results source: race -> None or <<horse -> position>>
  ret,              \* what the last update_results call returned
  restarts,         \* process restarts so far
  updates           \* update_results calls made so far

aggVars == << catalog, call, aggPc, attempt, upcoming_races, idx, fanLog, fanOut,
             aggResult, lookup >>

botVars == << tracked_this_session, tracked_races, sheets, nextPromo, pending,
              official, ret, restarts, updates >>

vars == << now, catalog, call, aggPc, attempt, upcoming_races, idx, fanLog, fanOut,
           aggResult, lookup,
           tracked_this_session, tracked_races, sheets, nextPromo, pending,
           official, ret, restarts, updates >>

(***************************************************************************)
(* racing/sources/betfair.py: the reference race list                      *)
(***************************************************************************)
MaxRaces == 3

LIMIT == 20

\* a sequence of records ordered by seconds_until_start, ascending and stable
\* (list.sort(key=...)): insertion sort
RECURSIVE InsertByDelta(_, _)
InsertByDelta(sorted, r) ==
  IF sorted = << >> THEN << r >>
  ELSE IF r.seconds_until_start < Head(sorted).seconds_until_start
       THEN << r >> \o sorted
       ELSE << Head(sorted) >> \o InsertByDelta(Tail(sorted), r)

RECURSIVE SortByDelta(_)
SortByDelta(list) ==
  IF list = << >> THEN << >>
  ELSE InsertByDelta(SortByDelta(SubSeq(list, 1, Len(list) - 1)), list[Len(list)])

\* the races of the catalog that are open and in the future (340-365)
RECURSIVE UpcomingOf(_, _)
UpcomingOf(races, t) ==
  IF races = << >> THEN << >>
  ELSE LET race == Head(races)
           delta == race.start_time - t
           rest == UpcomingOf(Tail(races), t)
       IN  IF race.status \notin {"OPEN", "SUSPENDED"} THEN rest
           ELSE IF delta > 0
                THEN << [venue |-> race.venue,
                         race_number |-> race.race_number,
                         market_id |-> race.market_id,
                         start_time |-> race.start_time,
                         seconds_until_start |-> delta] >> \o rest
                ELSE rest

\* get_meetings_by_time: the races the exchange lists for the time range
RECURSIVE get_meetings_by_time(_, _, _)
get_meetings_by_time(races, start, end) ==
  IF races = << >> THEN << >>
  ELSE LET rest == get_meetings_by_time(Tail(races), start, end)
       IN  IF start <= Head(races).start_time /\ Head(races).start_time <= end
           THEN << Head(races) >> \o rest
           ELSE rest

\* the range find_upcoming_races asks for: 18 hours from now
HORIZON == 18 * 3600

\* find_upcoming_races
find_upcoming_races(races, t, limit) ==
  LET meetings == get_meetings_by_time(races, t, t + HORIZON)
      upcoming == SortByDelta(UpcomingOf(meetings, t))
  IN  SubSeq(upcoming, 1, Min(Len(upcoming), limit))

(***************************************************************************)
(* What one fan-out round can bring back (the world get_next_race reads)   *)
(***************************************************************************)
EmptyData == [runners |-> << >>, state |-> ""]

\* a bookmaker's runner map: horse 1 and 2 quoted, horse 3 quoted too although
\* the exchange has removed it
QuotedRunners ==
  [h \in {1, 2, 3} |->
     [win_odds |-> Some(CASE h = 1 -> 300 [] h = 2 -> 500 [] OTHER -> 900),
      scratched |-> FALSE]]

\* get_race_with_place_odds: horses 1 and 2 active, horse 3 removed
BfFull ==
  [runners |->
     [h \in {1, 2, 3} |->
        [lay_win |-> Some(CASE h = 1 -> 250 [] h = 2 -> 520 [] OTHER -> 1000),
         lay_place |-> Some(CASE h = 1 -> 150 [] h = 2 -> 200 [] OTHER -> 300),
         status |-> IF h = 3 THEN "REMOVED" ELSE "ACTIVE"]]]

BfEmpty == [runners |-> << >>]

\* the eight bookmaker branches when exactly the bookmakers of `cov` return
\* runners; the TAB branch also reports the state of the meeting it matched
BookData(cov, tabState) ==
  [b \in {AggBookies[i] : i \in 1..Len(AggBookies)} |->
     IF b = "tab"
     THEN IF tabState = None THEN EmptyData
          ELSE [runners |-> IF b \in cov THEN QuotedRunners ELSE << >>,
                state |-> Val(tabState)]
     ELSE IF b \in cov THEN [runners |-> QuotedRunners, state |-> ""]
          ELSE EmptyData]

FanOuts ==
  {[betfair |-> BfFull, data |-> BookData({}, None)],
   [betfair |-> BfEmpty, data |-> BookData({}, Some("NSW"))],
   [betfair |-> BfFull,
    data |-> BookData({AggBookies[i] : i \in 1..Len(AggBookies)}, Some("VIC"))]}
  \cup {[betfair |-> BfFull, data |-> BookData({AggBookies[i]}, Some("NSW"))] :
          i \in 1..Len(AggBookies)}

\* the bookmaker branches that returned a non-empty runner map
Covered(data) == {b \in DOMAIN data : DOMAIN data[b].runners # {}}

\* an exchange market with holes: horse 1 fully priced, horse 2 without a lay
\* price, horse 3 without a place price, horse 4 with a zero lay price, horse 5
\* with a zero place price, horse 6 not listed at all, horse 7 removed
BfThin ==
  [runners |->
     [h \in (1..5) \cup {7} |->
        [lay_win |-> CASE h = 2 -> None [] h = 4 -> Some(0) [] OTHER -> Some(250),
         lay_place |-> CASE h = 3 -> None [] h = 5 -> Some(0) [] OTHER -> Some(150),
         status |-> IF h = 7 THEN "REMOVED" ELSE "ACTIVE"]]]

\* bookmaker runner maps with holes: every horse quoted, also 6 and 7 ...
AllQuoted ==
  [h \in 1..7 |-> [win_odds |-> Some(300), scratched |-> FALSE]]

\* ... and horse 1 quoted at zero, horse 2 scratched, horse 3 without a price,
\* horse 4 quoted, horse 5 and 6 missing
HoleyQuotes ==
  [h \in 1..4 |->
     [win_odds |-> CASE h = 1 -> Some(0) [] h = 3 -> None [] OTHER -> Some(400),
      scratched |-> (h = 2)]]

ThinFanOut ==
  [betfair |-> BfThin,
   data |-> [BookData({}, Some("QLD")) EXCEPT
               !["sportsbet"] = [runners |-> AllQuoted, state |-> ""],
               !["playup"] = [runners |-> HoleyQuotes, state |-> ""]]]

\* TAB alone has the race, at a meeting in the ACT or (international) in a
\* location the commission table does not list
JurisdictionFanOuts ==
  {[betfair |-> BfFull, data |-> BookData({"tab"}, Some(st))] : st \in {"ACT", "NZL"}}

\* what the sources hold in one fan-out round
Worlds == FanOuts \cup {ThinFanOut} \cup JurisdictionFanOuts

(***************************************************************************)
(* racing/aggregator.py: the branches of the fan-out                       *)
(***************************************************************************)
Bookies == {AggBookies[i] : i \in 1..Len(AggBookies)}

NoFailure == [branch |-> "none", step |-> "none"]

\* where an exception is raised in one fan-out round: nowhere, in one
\* bookmaker's find_race or get_race_odds, or in one of the HTTP requests of
\* the exchange branch (win odds, place market lookup, place odds)
FailurePoints ==
  {NoFailure}
  \cup [branch : Bookies, step : {"find_race", "get_race_odds"}]
  \cup [branch : {"betfair"}, step : {"win", "place_id", "place"}]

\* the branch an exception was raised in
RaisedIn(failure) ==
  CASE failure.branch = "betfair" /\ failure.step = "win" -> "betfair_win"
    [] failure.branch = "betfair" /\ failure.step # "win" -> "betfair_place"
    [] OTHER -> failure.branch

\* a bookmaker branch that lets the exception of its source escape
fetch_bookie_uncaught(b, odds_data, failure) ==
  IF failure.branch = b
  THEN [raises |-> TRUE, value |-> EmptyData]
  ELSE [raises |-> FALSE, value |-> odds_data]

\* _fetch_sportsbet ... _fetch_playup (149-229): find_race, then get_race_odds
\* of the race found, both inside try/except Exception; what the coroutine
\* hands to gather(): it never raises, and returns {} after an exception
fetch_bookie(b, odds_data, failure) ==
  IF failure.branch = b
  THEN [raises |-> FALSE, value |-> EmptyData]
  ELSE [raises |-> FALSE, value |-> odds_data]

\* BetfairSource._fetch_json: an exception of the request or of the JSON
\* decoding is caught and the response is None
fetch_json(resp, failed) == IF failed THEN None ELSE Some(resp)

\* BetfairSource.get_race_with_place_odds (203-248): the win market's runners,
\* each with the place price of the place market when that market was found
\* and fetched
get_race_with_place_odds(market, failure) ==
  LET bf(step) == failure.branch = "betfair" /\ failure.step = step
      win_resp == fetch_json(market.runners, bf("win"))
      win_data == IF win_resp = None THEN << >> ELSE Val(win_resp)
      place_market_id == fetch_json(TRUE, bf("place_id"))
      place_resp == IF place_market_id = None THEN None
                    ELSE fetch_json(market.runners, bf("place"))
  IN  [runners |->
         [h \in DOMAIN win_data |->
            [lay_win |-> win_data[h].lay_win,
             lay_place |-> IF place_resp = None THEN None
                           ELSE Val(place_resp)[h].lay_place,
             status |-> win_data[h].status]]]

\* asyncio.gather of the nine branches (87-89): it raises when a branch does
gather(world, failure) ==
  LET branch(b) == fetch_bookie(b, world.data[b], failure)
  IN  [raises |-> \E b \in Bookies : branch(b).raises,
       betfair |-> get_race_with_place_odds(world.betfair, failure),
       data |-> [b \in Bookies |-> branch(b).value]]

\* no fan-out round made yet
NoFanOut ==
  [world |-> [betfair |-> BfEmpty, data |-> BookData({}, None)],
   raised |-> "none",
   betfair |-> BfEmpty,
   data |-> BookData({}, None)]

(***************************************************************************)
(* racing/sources/*.py: find_race, the race matcher of each bookmaker      *)
(*                                                                         *)
(* A venue name is a sequence of one-character strings.  A source catalog  *)
(* is a sequence of meetings, each a venue and a sequence of races, each a *)
(* race number and an optional start time in seconds.                      *)
(***************************************************************************)
\* str.lower() on the characters used
Lower(c) ==
  CASE c = "S" -> "s" [] c = "P" -> "p" [] c = "F" -> "f" [] OTHER -> c

\* venue.lower().replace(' ', '')
NormalizeVenue(venue) ==
  LET NotSpace(c) == c # " "
      kept == SelectSeq(venue, NotSpace)
  IN  [i \in 1..Len(kept) |-> Lower(kept[i])]

\* a in b, on strings
IsSubstring(a, b) ==
  \E i \in 0..(Len(b) - Len(a)) : SubSeq(b, i + 1, i + Len(a)) = a

\* not (meeting_venue not in search_venue and search_venue not in meeting_venue)
VenueQualifies(meeting_venue, venue) ==
  LET m == NormalizeVenue(meeting_venue)
      q == NormalizeVenue(venue)
  IN  IsSubstring(m, q) \/ IsSubstring(q, m)

TOLERANCE == 300

\* the race a match returns
MatchOf(meeting, race) ==
  [venue |-> meeting.venue, race_number |-> race.race_number,
   start_time |-> race.start_time]

\* the closest-start scan of one meeting: races[k..] given the best so far;
\* a race without a start time is skipped, a tie goes to the later race
RECURSIVE ClosestScan(_, _, _, _, _)
ClosestScan(meeting, k, start_time, best_diff, best_match) ==
  IF k > Len(meeting.races) THEN best_match
  ELSE LET race == meeting.races[k]
           time_diff == Abs(Val(race.start_time) - start_time)
       IN  IF race.start_time # None /\ time_diff <= best_diff
           THEN ClosestScan(meeting, k + 1, start_time, time_diff,
                            Some(MatchOf(meeting, race)))
           ELSE ClosestScan(meeting, k + 1, start_time, best_diff, best_match)

\* find_race of sportsbet, amused, boombet, palmerbet and tab: the race of
\* the first qualifying meeting that has one within the tolerance
RECURSIVE find_race_by_time(_, _, _, _)
find_race_by_time(meetings, venue, race_number, start_time) ==
  IF meetings = << >> THEN None
  ELSE LET meeting == Head(meetings)
           rest == find_race_by_time(Tail(meetings), venue, race_number, start_time)
       IN  IF ~VenueQualifies(meeting.venue, venue) THEN rest
           ELSE LET best_match == ClosestScan(meeting, 1, start_time, TOLERANCE, None)
                IN  IF best_match # None THEN best_match ELSE rest

\* the first race of the meeting with the query's number and a start time
\* within the tolerance
RECURSIVE NumberScan(_, _, _, _)
NumberScan(meeting, k, race_number, start_time) ==
  IF k > Len(meeting.races) THEN None
  ELSE LET race == meeting.races[k]
       IN  IF /\ race.race_number = race_number
              /\ race.start_time # None
              /\ Abs(Val(race.start_time) - start_time) <= TOLERANCE
           THEN Some(MatchOf(meeting, race))
           ELSE NumberScan(meeting, k + 1, race_number, start_time)

\* find_race of pointsbet and betr
RECURSIVE find_race_by_number(_, _, _, _)
find_race_by_number(meetings, venue, race_number, start_time) ==
  IF meetings = << >> THEN None
  ELSE LET meeting == Head(meetings)
           rest == find_race_by_number(Tail(meetings), venue, race_number, start_time)
       IN  IF ~VenueQualifies(meeting.venue, venue) THEN rest
           ELSE LET match == NumberScan(meeting, 1, race_number, start_time)
                IN  IF match # None THEN match ELSE rest

\* the first race of the meeting with the query's number, whatever its time
RECURSIVE FirstNumbered(_, _, _)
FirstNumbered(meeting, k, race_number) ==
  IF k > Len(meeting.races) THEN None
  ELSE IF meeting.races[k].race_number = race_number
       THEN Some(MatchOf(meeting, meeting.races[k]))
       ELSE FirstNumbered(meeting, k + 1, race_number)

\* find_race of playup: by number, else by closest start
RECURSIVE find_race_playup(_, _, _, _)
find_race_playup(meetings, venue, race_number, start_time) ==
  IF meetings = << >> THEN None
  ELSE LET meeting == Head(meetings)
           rest == find_race_playup(Tail(meetings), venue, race_number, start_time)
       IN  IF ~VenueQualifies(meeting.venue, venue) THEN rest
           ELSE LET numbered == FirstNumbered(meeting, 1, race_number)
                    best_match == ClosestScan(meeting, 1, start_time, TOLERANCE, None)
                IN  IF numbered # None THEN numbered
                    ELSE IF best_match # None THEN best_match ELSE rest

\* <source>.find_race(venue, race_number, start_time)
find_race(source, meetings, venue, race_number, start_time) ==
  CASE source \in {"pointsbet", "betr"} ->
         find_race_by_number(meetings, venue, race_number, start_time)
    [] source = "playup" ->
         find_race_playup(meetings, venue, race_number, start_time)
    [] OTHER -> find_race_by_time(meetings, venue, race_number, start_time)

\* the venue names of the lookups
Sandown == << "S", "a", "n" >>

SandownPark == << "S", "a", "n", " ", "P", "k" >>

Flemington == << "F", "l", "e" >>

\* the start time the lookups ask for
QUERY_TIME == 1000

\* what a source can list for one race
ListedRaces ==
  [race_number : {1, 2},
   start_time : {None, Some(QUERY_TIME + 120), Some(QUERY_TIME - 300),
                 Some(QUERY_TIME + 400)}]

\* the source catalogs: a meeting of two races at any venue, then a one-race
\* meeting at Sandown Park
SourceCatalogs ==
  {<< [venue |-> v, races |-> << r1, r2 >>],
      [venue |-> SandownPark, races |-> << r3 >>] >> :
     v \in {Sandown, SandownPark, Flemington},
     r1 \in ListedRaces, r2 \in ListedRaces, r3 \in ListedRaces}

NoLookup ==
  [pc |-> "idle", source |-> "", meetings |-> << >>, venue |-> << >>,
   race_number |-> 0, start_time |-> 0, result |-> None]

\* the call of find_race and its return
FindRace ==
  /\ lookup.pc = "call"
  /\ lookup' = [lookup EXCEPT
                  !.pc = "done",
                  !.result = find_race(lookup.source, lookup.meetings, lookup.venue,
                                       lookup.race_number, lookup.start_time)]
  /\ UNCHANGED << now, catalog, call, aggPc, attempt, upcoming_races, idx, fanLog,
                  fanOut, aggResult >>
  /\ UNCHANGED botVars

(***************************************************************************)
(* racing/aggregator.py: get_next_race, one action per network round       *)
(***************************************************************************)
MAX_ATTEMPTS == 3

\* a retry loop that gives up after the first empty list
AggFetchOnce ==
  /\ aggPc = "fetch"
  /\ attempt < MAX_ATTEMPTS
  /\ \E fetched \in {find_upcoming_races(catalog, now, LIMIT), << >>} :
       /\ upcoming_races' = fetched
       /\ attempt' = attempt + 1
       /\ IF fetched # << >>
          THEN aggPc' = "loop" /\ idx' = 1 /\ aggResult' = aggResult
          ELSE aggPc' = "done" /\ idx' = idx /\ aggResult' = None
  /\ UNCHANGED << now, catalog, call, fanLog, fanOut, lookup >>
  /\ UNCHANGED botVars

\* the reference list fetch with retry (54-65); a failed fetch returns []
AggFetch ==
  /\ aggPc = "fetch"
  /\ attempt < MAX_ATTEMPTS
  /\ \E fetched \in {find_upcoming_races(catalog, now, LIMIT), << >>} :
       /\ upcoming_races' = fetched
       /\ attempt' = attempt + 1
       /\ IF fetched # << >>
          THEN aggPc' = "loop" /\ idx' = 1 /\ aggResult' = aggResult
          ELSE IF attempt + 1 = MAX_ATTEMPTS
               THEN aggPc' = "done" /\ idx' = idx /\ aggResult' = None
               ELSE aggPc' = "fetch" /\ idx' = idx /\ aggResult' = aggResult
  /\ UNCHANGED << now, catalog, call, fanLog, fanOut, lookup >>
  /\ UNCHANGED botVars

\* a candidate loop that stays on a candidate without coverage
AggFanOutWith_same_candidate(worlds, failures) ==
  /\ aggPc = "loop"
  /\ idx <= Len(upcoming_races)
  /\ \E world \in worlds, failure \in failures :
       LET next_race == upcoming_races[idx]
           f == gather(world, failure)
       IN  /\ fanOut' = [world |-> world, raised |-> RaisedIn(failure),
                         betfair |-> f.betfair, data |-> f.data]
           /\ IF f.raises
              THEN /\ aggPc' = "raised"
                   /\ UNCHANGED << fanLog, aggResult, idx >>
              ELSE /\ fanLog' = Append(fanLog, [market_id |-> next_race.market_id,
                                                covered |-> Covered(f.data)])
                   /\ idx' = idx
                   /\ IF has_bookie_odds(f.data)
                      THEN /\ aggResult' = Some(BuildSnapshot(next_race, f.betfair,
                                                 f.data, call.promo, call.lay_mode))
                           /\ aggPc' = "done"
                      ELSE /\ aggPc' = "loop"
                           /\ aggResult' = None
  /\ UNCHANGED << now, catalog, call, attempt, upcoming_races, lookup >>
  /\ UNCHANGED botVars

\* one iteration of the candidate loop: the fan-out, the coverage test and
\* either the return of the snapshot or the move to the next candidate (70-147),
\* for the given sets of source contents and of places an exception is raised
AggFanOutWith(worlds, failures) ==
  /\ aggPc = "loop"
  /\ idx <= Len(upcoming_races)
  /\ \E world \in worlds, failure \in failures :
       LET next_race == upcoming_races[idx]
           f == gather(world, failure)
       IN  /\ fanOut' = [world |-> world, raised |-> RaisedIn(failure),
                         betfair |-> f.betfair, data |-> f.data]
           /\ IF f.raises
              THEN /\ aggPc' = "raised"
                   /\ UNCHANGED << fanLog, aggResult, idx >>
              ELSE /\ fanLog' = Append(fanLog, [market_id |-> next_race.market_id,
                                                covered |-> Covered(f.data)])
                   /\ IF has_bookie_odds(f.data)
                      THEN /\ aggResult' = Some(BuildSnapshot(next_race, f.betfair,
                                                 f.data, call.promo, call.lay_mode))
                           /\ aggPc' = "done"
                           /\ idx' = idx
                      ELSE /\ idx' = idx + 1
                           /\ aggPc' = IF idx = Len(upcoming_races)
                                       THEN "done" ELSE "loop"
                           /\ aggResult' = None
  /\ UNCHANGED << now, catalog, call, attempt, upcoming_races, lookup >>
  /\ UNCHANGED botVars

\* the iteration when every source answers
AggFanOut == AggFanOutWith(FanOuts, {NoFailure})

\* the iteration when a source can raise and the markets can have holes
AggFanOutFailing == AggFanOutWith(Worlds, FailurePoints)

(***************************************************************************)
(* racing/tracker.py: selection of the best opportunity                    *)
(***************************************************************************)
\* BOOKIES
BOOKIES ==
  << "amused", "betr", "boombet", "palmerbet", "playup", "pointsbet", "sportsbet", "tab" >>

SheetNames == {"2/3-1min", "2/3-30s", "FreeHit-1min", "FreeHit-30s"}

\* SHEETS.values(), in order
SHEETS == << "2/3-1min", "2/3-30s", "FreeHit-1min", "FreeHit-30s" >>

Timings == {"1min", "30s"}

\* EVTracker._calc_ev_2nd3rd (called with its default commission)
calc_ev_2nd3rd(back, lay_win, lay_place, lay_mode, commission) ==
  IF Falsy(back) \/ Falsy(lay_win) \/ Falsy(lay_place) THEN None
  ELSE
    LET B   == Val(back)
        Lw  == Val(lay_win)
        Lp  == Val(lay_place)
        p1  == (SCALE * 100) \div Lw
        p_place == (SCALE * 100) \div Lp
        p2or3 == Max(p_place - p1, 0)
        ev  == (p1 * B) \div 100 + (p2or3 * RETENTION_FACTOR) \div 100 - SCALE
        commission_cost == ((SCALE - p1) * commission * (B - 100)) \div (100 * Lw)
    IN  CASE lay_mode = "lay"      -> Some(ev - commission_cost)
          [] lay_mode = "half_lay" -> Some(ev - (commission_cost \div 2))
          [] OTHER                 -> Some(ev)

\* EVTracker._calc_ev_free_hit (called with its default commission)
calc_ev_free_hit(back, lay_win, lay_mode, commission) ==
  IF Falsy(back) \/ Falsy(lay_win) THEN None
  ELSE
    LET B   == Val(back)
        Lw  == Val(lay_win)
        p_win  == (SCALE * 100) \div Lw
        p_lose == SCALE - p_win
        ev  == (p_win * B) \div 100 + (p_lose * RETENTION_FACTOR) \div 100 - SCALE
        commission_cost == (p_lose * commission * (B - 100)) \div (100 * Lw)
    IN  CASE lay_mode = "lay"      -> Some(ev - commission_cost)
          [] lay_mode = "half_lay" -> Some(ev - (commission_cost \div 2))
          [] OTHER                 -> Some(ev)

\* the default of the commission parameter of _calc_ev_2nd3rd and _calc_ev_free_hit
DEFAULT_COMMISSION == 8

\* best_ev = -999, in hundredths of a percent
BEST_EV_FLOOR == 0 - 999 * 100

\* the (runner, bookie) pairs in encounter order: runners outer, BOOKIES inner
PairAt(runners, k) ==
  LET r == runners[((k - 1) \div Len(BOOKIES)) + 1]
      b == BOOKIES[((k - 1) % Len(BOOKIES)) + 1]
  IN  [horse_number |-> r.horse_number, bookie |-> b,
       odds |-> r[b].odds, ev |-> r[b].ev,
       lay_win |-> r.lay_win, lay_place |-> r.lay_place]

\* a scan in which a later pair of equal EV replaces the best so far
RECURSIVE BestScan_last_tie(_, _)
BestScan_last_tie(runners, k) ==
  IF k = 0 THEN None
  ELSE LET prev == BestScan_last_tie(runners, k - 1)
           best_ev == IF prev = None THEN BEST_EV_FLOOR ELSE Val(Val(prev).ev)
           p == PairAt(runners, k)
       IN  IF p.ev # None /\ Val(p.ev) >= best_ev /\ p.odds # None
           THEN Some(p)
           ELSE prev

\* the scan of _find_best_ev (120-143) over the first k pairs:
\* None, or <<the best pair so far>>
RECURSIVE BestScan(_, _)
BestScan(runners, k) ==
  IF k = 0 THEN None
  ELSE LET prev == BestScan(runners, k - 1)
           best_ev == IF prev = None THEN BEST_EV_FLOOR ELSE Val(Val(prev).ev)
           p == PairAt(runners, k)
       IN  IF p.ev # None /\ Val(p.ev) > best_ev /\ p.odds # None
           THEN Some(p)
           ELSE prev

\* _find_best_ev: None, or <<best>> with the EV of all three lay modes
find_best_ev(runners, promo) ==
  LET scan == BestScan(runners, Len(runners) * Len(BOOKIES))
  IN  IF scan = None THEN None
      ELSE LET p == Val(scan)
               ev(mode) ==
                 IF promo = "free_hit"
                 THEN calc_ev_free_hit(p.odds, p.lay_win, mode, DEFAULT_COMMISSION)
                 ELSE calc_ev_2nd3rd(p.odds, p.lay_win, p.lay_place, mode,
                                     DEFAULT_COMMISSION)
           IN  Some([horse_number |-> p.horse_number,
                     bookie |-> p.bookie,
                     back_odds |-> p.odds,
                     lay_win |-> p.lay_win,
                     lay_place |-> p.lay_place,
                     ev_no_lay |-> ev("no_lay"),
                     ev_half_lay |-> ev("half_lay"),
                     ev_full_lay |-> ev("lay")])

(***************************************************************************)
(* racing/tracker.py: the sheet rows and log_opportunity                   *)
(***************************************************************************)
DAY == 24 * 3600

\* SYDNEY_TZ, as a fixed offset from UTC
SYDNEY_OFFSET == 10 * 3600

\* local_start.strftime('%Y-%m-%d'): the day number of the local start
LocalDate(start_time) == (start_time + SYDNEY_OFFSET) \div DAY

\* local_start.strftime('%H:%M'): the minute of the local day
LocalTime(start_time) == ((start_time + SYDNEY_OFFSET) % DAY) \div 60

\* _get_race_key: venue, race number and the start time to the minute
get_race_key(race_data) ==
  << race_data.venue, race_data.race_number, race_data.start_time \div 60 >>

NoFlags == [t \in Timings |-> FALSE]

\* round(ev, 1) if ev else "": tenths of a percent, empty for None and for 0
EvCell(ev) == IF Falsy(ev) THEN None ELSE Some(RoundDiv(Val(ev), 10))

\* the sheet a promo and timing log to (203-209)
SheetOf(promo, timing) ==
  IF promo = "free_hit"
  THEN (IF timing = "1min" THEN "FreeHit-1min" ELSE "FreeHit-30s")
  ELSE (IF timing = "1min" THEN "2/3-1min" ELSE "2/3-30s")

\* the row log_opportunity prepares (232-251)
NewRow(race_data, best) ==
  [date |-> LocalDate(race_data.start_time),
   time |-> LocalTime(race_data.start_time),
   venue |-> race_data.venue,
   race |-> race_data.race_number,
   horse |-> best.horse_number,
   bookie |-> best.bookie,
   back |-> best.back_odds,
   lay |-> best.lay_win,
   ev_no_lay |-> EvCell(best.ev_no_lay),
   ev_half_lay |-> EvCell(best.ev_half_lay),
   ev_full_lay |-> EvCell(best.ev_full_lay),
   result |-> None,
   pl_no_lay |-> None, pl_half |-> None, pl_full |-> None,
   cum_no_lay |-> None, cum_half |-> None, cum_full |-> None]

\* dict lookup with the entry created on first use (213-214, bot.py 172-173)
FlagsOf(dict, key) == IF key \in DOMAIN dict THEN dict[key] ELSE NoFlags

\* a flag map whose flags are never raised
SetFlag_never_raised(dict, key, timing, v) ==
  [k \in DOMAIN dict \cup {key} |->
     IF k = key THEN [FlagsOf(dict, key) EXCEPT ![timing] = FALSE] ELSE dict[k]]

SetFlag(dict, key, timing, v) ==
  [k \in DOMAIN dict \cup {key} |->
     IF k = key THEN [FlagsOf(dict, key) EXCEPT ![timing] = v] ELSE dict[k]]

(***************************************************************************)
(* racing/tracker.py: settlement                                           *)
(***************************************************************************)
\* the first data row matching date, venue and race number, 0 if none (279-281)
FirstMatch(rows, date, venue, race_num) ==
  LET hits == {i \in 1..Len(rows) :
                 rows[i].date = date /\ rows[i].venue = venue /\ rows[i].race = race_num}
  IN  IF hits = {} THEN 0 ELSE CHOOSE i \in hits : \A j \in hits : i <= j

\* the result label of a position (283-290)
ResultLabel(position) ==
  CASE position = 1 -> "1st"
    [] position = 2 -> "2nd"
    [] position = 3 -> "3rd"
    [] OTHER -> "4th+"

\* commission = 0.08 (295)
SETTLE_COMMISSION == 8

\* a settlement that pays the bonus on every sheet for every non-win
ProfitLoss_bonus_everywhere(sheet_name, position, back, lay, commission) ==
  LET back_odds == IF back = None THEN 0 ELSE Val(back)
      lay_odds  == IF lay = None THEN 0 ELSE Val(lay)
      num == IF lay_odds > 0 THEN back_odds ELSE 0
      den == IF lay_odds > 0 THEN lay_odds ELSE 1
      q == RETENTION_FACTOR
      keep == 100 - commission
  IN  IF position = 1
      THEN [pl_no_lay |-> back_odds - 100,
            pl_half |-> RoundDiv((back_odds - 100) * den + 100 * num - 100 * den,
                                 2 * den),
            pl_full |-> RoundDiv(100 * num - 100 * den, den)]
      ELSE [pl_no_lay |-> q - 100,
            pl_half |-> RoundDiv((q - 100) * den + num * keep - 100 * den, 2 * den),
            pl_full |-> RoundDiv(num * keep + (q - 100) * den, den)]

\* the three P/L values, in cents, that update_results computes for a row
\* (292-334); lay_ratio is the fraction num / den
ProfitLoss(sheet_name, position, back, lay, commission) ==
  LET back_odds == IF back = None THEN 0 ELSE Val(back)
      lay_odds  == IF lay = None THEN 0 ELSE Val(lay)
      num == IF lay_odds > 0 THEN back_odds ELSE 0
      den == IF lay_odds > 0 THEN lay_odds ELSE 1
      is_free_hit == sheet_name \in {"FreeHit-1min", "FreeHit-30s"}
      q == RETENTION_FACTOR
      keep == 100 - commission
      win == [pl_no_lay |-> back_odds - 100,
              pl_half |-> RoundDiv((back_odds - 100) * den + 100 * num - 100 * den, 2 * den),
              pl_full |-> RoundDiv(100 * num - 100 * den, den)]
      bonus == [pl_no_lay |-> q - 100,
                pl_half |-> RoundDiv((q - 100) * den + num * keep - 100 * den, 2 * den),
                pl_full |-> RoundDiv(num * keep + (q - 100) * den, den)]
      loss == [pl_no_lay |-> 0 - 100,
               pl_half |-> RoundDiv(num * keep - 200 * den, 2 * den),
               pl_full |-> RoundDiv(num * keep - 100 * den, den)]
  IN  IF is_free_hit
      THEN (IF position = 1 THEN win ELSE bonus)
      ELSE (IF position = 1 THEN win
            ELSE IF position \in {2, 3} THEN bonus
            ELSE loss)

\* the running totals of the first k rows (366-380): empty P/L cells count 0
RECURSIVE CumUpTo(_, _)
CumUpTo(rows, k) ==
  IF k = 0 THEN [no_lay |-> 0, half |-> 0, full |-> 0]
  ELSE LET prev == CumUpTo(rows, k - 1)
           row == rows[k]
           v(c) == IF c = None THEN 0 ELSE Val(c)
       IN  IF row.pl_no_lay # None
           THEN [no_lay |-> prev.no_lay + v(row.pl_no_lay),
                 half |-> prev.half + v(row.pl_half),
                 full |-> prev.full + v(row.pl_full)]
           ELSE prev

\* a rescan that adds each row's P/L onto the totals already in its cells
update_cumulative_totals_onto_cells(rows, ok) ==
  IF ~ok THEN rows
  ELSE [i \in 1..Len(rows) |->
          IF rows[i].pl_no_lay # None
          THEN LET v(c) == IF c = None THEN 0 ELSE Val(c)
               IN  [rows[i] EXCEPT
                      !.cum_no_lay = Some(v(@) + v(rows[i].pl_no_lay)),
                      !.cum_half = Some(v(@) + v(rows[i].pl_half)),
                      !.cum_full = Some(v(@) + v(rows[i].pl_full))]
          ELSE rows[i]]

\* a rescan that writes the running totals into every row
update_cumulative_totals_every_row(rows, ok) ==
  IF ~ok THEN rows
  ELSE [i \in 1..Len(rows) |->
          LET cum == CumUpTo(rows, i)
          IN  [rows[i] EXCEPT !.cum_no_lay = Some(cum.no_lay),
                              !.cum_half = Some(cum.half),
                              !.cum_full = Some(cum.full)]]

\* _update_cumulative_totals: the rows after the rescan.  ok: whether the
\* sheet read and the batch update succeeded (the method swallows a failure)
update_cumulative_totals(rows, ok) ==
  IF ~ok THEN rows
  ELSE [i \in 1..Len(rows) |->
          IF rows[i].pl_no_lay # None
          THEN LET cum == CumUpTo(rows, i)
               IN  [rows[i] EXCEPT !.cum_no_lay = Some(cum.no_lay),
                                   !.cum_half = Some(cum.half),
                                   !.cum_full = Some(cum.full)]
          ELSE rows[i]]

\* the four update_cell calls (337-340), of which the first `done` succeed
WriteCells(row, label, pl, done) ==
  [row EXCEPT !.result = IF done >= 1 THEN Some(label) ELSE @,
              !.pl_no_lay = IF done >= 2 THEN Some(pl.pl_no_lay) ELSE @,
              !.pl_half = IF done >= 3 THEN Some(pl.pl_half) ELSE @,
              !.pl_full = IF done >= 4 THEN Some(pl.pl_full) ELSE @]

WRITES == 4

\* what the sheet service does during one update_results call: whether the
\* read succeeds, how many of the cell writes succeed before one raises,
\* and whether the cumulative rescan's sheet calls succeed
SheetIO ==
  {[read |-> FALSE, done |-> 0, cum |-> FALSE]}
  \cup {[read |-> TRUE, done |-> d, cum |-> FALSE] : d \in 0..(WRITES - 1)}
  \cup {[read |-> TRUE, done |-> WRITES, cum |-> c] : c \in BOOLEAN}

AllOk == [read |-> TRUE, done |-> WRITES, cum |-> TRUE]

\* update_results: the sheets after the call and the value returned
update_results(sh, sheet_name, venue, race_num, date, position, io) ==
  LET rows == sh[sheet_name]
      i == FirstMatch(rows, date, venue, race_num)
  IN  IF ~io.read THEN [sheets |-> sh, ret |-> FALSE]
      ELSE IF i = 0 THEN [sheets |-> sh, ret |-> FALSE]
      ELSE
        LET pl == ProfitLoss(sheet_name, position, rows[i].back, rows[i].lay,
                             SETTLE_COMMISSION)
            written == [rows EXCEPT ![i] =
                          WriteCells(rows[i], ResultLabel(position), pl, io.done)]
        IN  IF io.done < WRITES
            THEN [sheets |-> [sh EXCEPT ![sheet_name] = written], ret |-> FALSE]
            ELSE [sheets |-> [sh EXCEPT ![sheet_name] =
                                update_cumulative_totals(written, io.cum)],
                  ret |-> TRUE]

\* get_pending_results: the rows without a result whose recorded start is
\* more than 900 seconds ago, sheet by sheet (507-536)
PENDING_AFTER == 900

RaceDt(row) == row.date * DAY + row.time * 60 - SYDNEY_OFFSET

RECURSIVE PendingRows(_, _, _, _)
PendingRows(sheet_name, rows, k, t) ==
  IF k > Len(rows) THEN << >>
  ELSE LET row == rows[k]
           rest == PendingRows(sheet_name, rows, k + 1, t)
       IN  IF row.result = None /\ t - RaceDt(row) > PENDING_AFTER
           THEN << [sheet |-> sheet_name, date |-> row.date, time |-> row.time,
                    venue |-> row.venue, race |-> row.race, horse |-> row.horse] >>
                \o rest
           ELSE rest

RECURSIVE PendingFrom(_, _, _)
PendingFrom(sh, k, t) ==
  IF k > Len(SHEETS) THEN << >>
  ELSE PendingRows(SHEETS[k], sh[SHEETS[k]], 1, t) \o PendingFrom(sh, k + 1, t)

\* a pending list that does not wait for the race to be over
get_pending_results_at_once(sh, t, ok) ==
  IF ok THEN PendingFrom(sh, 1, t + PENDING_AFTER) ELSE << >>

\* ok: whether the spreadsheet could be opened (538-540 returns [] otherwise)
get_pending_results(sh, t, ok) == IF ok THEN PendingFrom(sh, 1, t) ELSE << >>

(***************************************************************************)
(* The world the bot runs in                                               *)
(***************************************************************************)
\* the first race's start, seconds after the model's epoch
T1 == 20 * 60

\* the reference exchange's catalog while the bot runs: the same venue and race
\* number on two consecutive days; the meeting is in NSW
BotCatalog ==
  << [venue |-> "Randwick", race_number |-> 1, market_id |-> 1,
      status |-> "OPEN", start_time |-> T1],
     [venue |-> "Randwick", race_number |-> 1, market_id |-> 2,
      status |-> "OPEN", start_time |-> T1 + DAY] >>

\* the state TAB reports for a venue
StateOfVenue(venue) == IF venue = "Randwick" THEN "NSW" ELSE "VIC"

\* the instants at which the clock is observed, relative to a race start:
\* twice inside the one-minute window, inside the thirty-second window, and
\* past the pending delay; the next day's race is observed in its one-minute
\* window
Offsets == {0 - 60, 0 - 55, 0 - 30, 901}

NextDayOffsets == {0 - 60}

Instants ==
  {BotCatalog[1].start_time + d : d \in Offsets}
  \cup {BotCatalog[2].start_time + d : d \in NextDayOffsets}

\* a bookmaker's runner map with horse 1 scratched
ScratchedRunners ==
  [h \in {1, 2} |->
     [win_odds |-> Some(IF h = 1 THEN 300 ELSE 500), scratched |-> (h = 1)]]

OnlyBook(b, runners, tabState) ==
  [x \in {AggBookies[i] : i \in 1..Len(AggBookies)} |->
     [runners |-> IF x = b THEN runners ELSE << >>,
      state |-> IF x = "tab" THEN tabState ELSE ""]]

\* what a fan-out for a race of the given state can bring back when some
\* bookmaker has odds: the best pair is horse 1 at sportsbet; or horse 2 at
\* tab; or no runner at all (the exchange returned nothing)
PollFanOuts(st) ==
  {[betfair |-> BfFull, data |-> OnlyBook("sportsbet", QuotedRunners, st)],
   [betfair |-> BfFull, data |-> OnlyBook("tab", ScratchedRunners, st)],
   [betfair |-> BfEmpty, data |-> OnlyBook("sportsbet", QuotedRunners, st)]}

\* the snapshots get_next_race can return at time t for a promo: the snapshot of
\* an upcoming race (every earlier candidate having no coverage)
SnapshotsAt(t, promo) ==
  LET upcoming == find_upcoming_races(BotCatalog, t, LIMIT)
  IN  UNION {{BuildSnapshot(upcoming[i], f.betfair, f.data, promo, "lay") :
                 f \in PollFanOuts(StateOfVenue(upcoming[i].venue))} :
               i \in 1..Len(upcoming)}

\* the same, tabulated over the instants of the clock and the polled promos
SnapshotTable ==
  [t \in Instants \cup {0}, promo \in {"2/3", "free_hit"} |-> SnapshotsAt(t, promo)]

Snapshots(t, promo) == SnapshotTable[t, promo]

\* self._find_best_ev(race_data['runners'], promo) (220)
best_ev_of(race_data) == find_best_ev(race_data.runners, race_data.promo)

\* a tracker that neither tests nor sets its checkpoint flag
log_opportunity_unflagged(tr, sh, race_data, timing, appendOk) ==
  LET sheet_name == SheetOf(race_data.promo, timing)
      best == best_ev_of(race_data)
  IN  IF best = None \/ ~appendOk THEN [tracked_races |-> tr, sheets |-> sh]
      ELSE [tracked_races |-> tr,
            sheets |-> [sh EXCEPT ![sheet_name] =
                          Append(@, NewRow(race_data, Val(best)))]]

\* log_opportunity: the tracker's map and the sheets after the call.
\* appendOk: whether ws.append_row succeeded (it raises otherwise)
log_opportunity(tr, sh, race_data, timing, appendOk) ==
  LET sheet_name == SheetOf(race_data.promo, timing)
      race_key == get_race_key(race_data)
      tr1 == SetFlag(tr, race_key, timing, FlagsOf(tr, race_key)[timing])
      best == best_ev_of(race_data)
  IN  IF tr1[race_key][timing] THEN [tracked_races |-> tr1, sheets |-> sh]
      ELSE IF best = None THEN [tracked_races |-> tr1, sheets |-> sh]
      ELSE IF appendOk
           THEN [tracked_races |-> SetFlag(tr1, race_key, timing, TRUE),
                 sheets |-> [sh EXCEPT ![sheet_name] =
                               Append(@, NewRow(race_data, Val(best)))]]
           ELSE [tracked_races |-> tr1, sheets |-> sh]

\* the finishing positions the results source can report for a race:
\* horse -> 1 (W), 2 (P), 0 (L) or -1 (V)
ResultMaps ==
  {(1 :> 1) @@ (2 :> 0),
   (1 :> 2) @@ (2 :> 1),
   (1 :> 0 - 1)}

\* the catalog race a sheet row or a pending entry is about
RaceOf(date, venue, race_num) ==
  LET hits == {i \in 1..Len(BotCatalog) :
                 /\ BotCatalog[i].venue = venue
                 /\ BotCatalog[i].race_number = race_num
                 /\ LocalDate(BotCatalog[i].start_time) = date}
  IN  IF hits = {} THEN 0 ELSE CHOOSE i \in hits : TRUE

MaxRows == 2

MaxRestarts == 1

MaxUpdates == 2

RECURSIVE TotalRowsFrom(_, _)
TotalRowsFrom(sh, k) ==
  IF k > Len(SHEETS) THEN 0 ELSE Len(sh[SHEETS[k]]) + TotalRowsFrom(sh, k + 1)

TotalRows(sh) == TotalRowsFrom(sh, 1)

(***************************************************************************)
(* bot.py: the tracking loop                                               *)
(***************************************************************************)
\* the promos tracking_loop polls, in order (154)
TrackPromos == << "2/3", "free_hit" >>

\* the bot's key of a race: venue, race number and promo (170)
BotKey(race_data, promo) == << race_data.venue, race_data.race_number, promo >>

\* checkpoint windows that overlap: the one-minute checkpoint also fires in
\* the thirty-second window
InWindow_overlapping(timing, seconds_until) ==
  IF timing = "1min" THEN 20 <= seconds_until /\ seconds_until <= 70
  ELSE 20 <= seconds_until /\ seconds_until <= 40

InWindow(timing, seconds_until) ==
  IF timing = "1min" THEN 50 <= seconds_until /\ seconds_until <= 70
  ELSE 20 <= seconds_until /\ seconds_until <= 40

\* one checkpoint of _track_promo (176-178, 182-184) on the state st
TrackAt(st, race_data, promo, timing, appendOk) ==
  LET race_key == BotKey(race_data, promo)
  IN  IF InWindow(timing, race_data.seconds_until_start)
         /\ ~FlagsOf(st.tracked_this_session, race_key)[timing]
      THEN LET logged == log_opportunity(st.tracked_races, st.sheets, race_data,
                                         timing, appendOk)
           IN  [tracked_this_session |->
                  SetFlag(st.tracked_this_session, race_key, timing, TRUE),
                tracked_races |-> logged.tracked_races,
                sheets |-> logged.sheets]
      ELSE st

\* _track_promo after get_next_race returned race_data (169-185)
track_promo(tts, tr, sh, race_data, promo, appendOk) ==
  LET race_key == BotKey(race_data, promo)
      st0 == [tracked_this_session |->
                SetFlag(tts, race_key, "1min", FlagsOf(tts, race_key)["1min"]),
              tracked_races |-> tr,
              sheets |-> sh]
      st1 == TrackAt(st0, race_data, promo, "1min", appendOk)
  IN  TrackAt(st1, race_data, promo, "30s", appendOk)

\* the clock moves on to a later instant
Tick ==
  /\ \E t \in Instants : t > now /\ now' = t
  /\ UNCHANGED aggVars
  /\ UNCHANGED botVars

\* _track_promo when get_next_race returned nothing (166-167), or raised
TrackNoRace ==
  /\ nextPromo' = (nextPromo % Len(TrackPromos)) + 1
  /\ UNCHANGED << now, tracked_this_session, tracked_races, sheets, pending,
                  official, ret, restarts, updates >>
  /\ UNCHANGED aggVars

\* _track_promo when get_next_race returned the snapshot race_data
TrackPromoCall(race_data, appendOk) ==
  LET promo == TrackPromos[nextPromo]
      after == track_promo(tracked_this_session, tracked_races, sheets,
                           race_data, promo, appendOk)
  IN  /\ TotalRows(after.sheets) <= MaxRows
      /\ tracked_this_session' = after.tracked_this_session
      /\ tracked_races' = after.tracked_races
      /\ sheets' = after.sheets
      /\ nextPromo' = (nextPromo % Len(TrackPromos)) + 1
      /\ UNCHANGED << now, pending, official, ret, restarts, updates >>
      /\ UNCHANGED aggVars

TrackPromo ==
  \E promo \in {TrackPromos[nextPromo]} :
    \E race_data \in Snapshots(now, promo), appendOk \in BOOLEAN :
      TrackPromoCall(race_data, appendOk)

\* the process is restarted: the in-memory maps are lost, the sheet is kept
Restart ==
  /\ restarts < MaxRestarts
  /\ restarts' = restarts + 1
  /\ tracked_this_session' = << >>
  /\ tracked_races' = << >>
  /\ nextPromo' = 1
  /\ pending' = << >>
  /\ ret' = None
  /\ UNCHANGED << now, sheets, official, updates >>
  /\ UNCHANGED aggVars

(***************************************************************************)
(* bot.py: the results loop and the manual update command                  *)
(***************************************************************************)
\* a race is run and the results source gets its finishing positions
RaceFinishes ==
  /\ \E r \in 1..Len(BotCatalog), m \in ResultMaps :
       /\ official[r] = None
       /\ now > BotCatalog[r].start_time
       /\ official' = [official EXCEPT ![r] = Some(m)]
  /\ UNCHANGED << now, tracked_this_session, tracked_races, sheets, nextPromo,
                  pending, ret, restarts, updates >>
  /\ UNCHANGED aggVars

\* results_loop reads the pending list (203-205); ok: the spreadsheet opened
ResultsStart ==
  /\ pending = << >>
  /\ \E ok \in BOOLEAN : pending' = get_pending_results(sheets, now, ok)
  /\ UNCHANGED << now, tracked_this_session, tracked_races, sheets, nextPromo,
                  official, ret, restarts, updates >>
  /\ UNCHANGED aggVars

\* a results loop that settles a void horse like any other finisher
process_pending_void_settled(sh, old_ret, race, found, results, io) ==
  LET skip == [sheets |-> sh, ret |-> old_ret, called |-> FALSE]
  IN  IF ~found \/ results = None THEN skip
      ELSE IF race.horse \notin DOMAIN Val(results) THEN skip
      ELSE LET res == update_results(sh, race.sheet, race.venue, race.race,
                                     race.date, Val(results)[race.horse], io)
           IN  [sheets |-> res.sheets, ret |-> Some(res.ret), called |-> TRUE]

\* what results_loop does for one pending entry once the lookups have
\* answered (212-255): the sheets after it and the value of `success`.
\* found: find_race_by_venue_and_number found the race; results: what
\* get_race_results returned, None or <<horse -> position>>
process_pending(sh, old_ret, race, found, results, io) ==
  LET skip == [sheets |-> sh, ret |-> old_ret, called |-> FALSE]
  IN  IF ~found \/ results = None THEN skip
      ELSE IF race.horse \notin DOMAIN Val(results) THEN skip
      ELSE LET position == Val(results)[race.horse]
           IN  IF position = 0 - 1 THEN skip
               ELSE LET res == update_results(sh, race.sheet, race.venue, race.race,
                                              race.date, position, io)
                    IN  [sheets |-> res.sheets, ret |-> Some(res.ret),
                         called |-> TRUE]

\* the answers the results source can give for a pending entry
ResultsFor(race) ==
  LET r == RaceOf(race.date, race.venue, race.race)
  IN  IF r = 0 THEN {None} ELSE {None, official[r]}

\* one iteration of the loop over the pending list
ResultsStepCall(found, results, io) ==
  /\ pending # << >>
  /\ results \in ResultsFor(Head(pending))
  /\ LET res == process_pending(sheets, ret, Head(pending), found, results, io)
     IN  /\ res.called => updates < MaxUpdates
         /\ sheets' = res.sheets
         /\ ret' = res.ret
         /\ updates' = IF res.called THEN updates + 1 ELSE updates
  /\ pending' = Tail(pending)
  /\ UNCHANGED << now, tracked_this_session, tracked_races, nextPromo,
                  official, restarts >>
  /\ UNCHANGED aggVars

ResultsStep ==
  /\ pending # << >>
  /\ \E found \in BOOLEAN, results \in ResultsFor(Head(pending)), io \in SheetIO :
       ResultsStepCall(found, results, io)

\* the positions the /update_result command offers (571-576)
ManualPositions == {1, 2, 3, 0}

\* the races a user may name: a tracked one and one never tracked
ManualKeys ==
  {[venue |-> "Randwick", race |-> 1, date |-> LocalDate(T1)],
   [venue |-> "Randwick", race |-> 2, date |-> LocalDate(T1)]}

\* the /update_result command (577-596)
ManualUpdateCall(sheet, key, position, io) ==
  /\ updates < MaxUpdates
  /\ updates' = updates + 1
  /\ LET res == update_results(sheets, sheet, key.venue, key.race, key.date,
                               position, io)
     IN  sheets' = res.sheets /\ ret' = Some(res.ret)
  /\ UNCHANGED << now, tracked_this_session, tracked_races, nextPromo, pending,
                  official, restarts >>
  /\ UNCHANGED aggVars

ManualUpdate ==
  \E sheet \in SheetNames, key \in ManualKeys, position \in ManualPositions,
     io \in SheetIO :
    ManualUpdateCall(sheet, key, position, io)

\* a direct call of the tracker's log_opportunity with a snapshot
LogOpportunityCall(race_data, timing, appendOk) ==
  /\ UNCHANGED << now, tracked_this_session, nextPromo, pending, official, ret,
                  restarts, updates >>
  /\ UNCHANGED aggVars
  /\ LET logged == log_opportunity(tracked_races, sheets, race_data, timing, appendOk)
     IN  /\ TotalRows(logged.sheets) <= MaxRows
         /\ tracked_races' = logged.tracked_races
         /\ sheets' = logged.sheets

AllSnapshots(t) == Snapshots(t, "2/3") \cup Snapshots(t, "free_hit")

LogOpportunity ==
  \E race_data \in AllSnapshots(now), timing \in Timings, appendOk \in BOOLEAN :
    LogOpportunityCall(race_data, timing, appendOk)

(***************************************************************************)
(* Specifications                                                          *)
(***************************************************************************)
EmptySheets == [n \in SheetNames |-> << >>]

InitBotVars ==
  /\ tracked_this_session = << >>
  /\ tracked_races = << >>
  /\ sheets = EmptySheets
  /\ nextPromo = 1
  /\ pending = << >>
  /\ official = [r \in 1..Len(BotCatalog) |-> None]
  /\ ret = None
  /\ restarts = 0
  /\ updates = 0

InitAggIdle ==
  /\ catalog = << >>
  /\ call = [promo |-> "2/3", lay_mode |-> "lay"]
  /\ aggPc = "done"
  /\ attempt = 0
  /\ upcoming_races = << >>
  /\ idx = 1
  /\ fanLog = << >>
  /\ fanOut = NoFanOut
  /\ lookup = NoLookup
  /\ aggResult = None

\* the bot after construction, before any race has been observed
Init == now = 0 /\ InitBotVars /\ InitAggIdle

\* the tracking loop over the two days of the catalog, with process restarts
Next ==
  \/ Tick
  \/ TrackNoRace
  \/ TrackPromo
  \/ Restart

Spec == Init /\ [][Next]_vars

\* the polls whose rows the settlement is observed on: those inside the first
\* race's one-minute window
LoggedPolls == {x \in Instants : InWindow("1min", BotCatalog[1].start_time - x)}

\* the sheets a fresh process leaves after one such poll of the tracking loop
\* before time t, starting from the sheets sh
PollOnce(sh, t) ==
  UNION {{track_promo(<< >>, << >>, sh, race_data, promo, TRUE).sheets :
            race_data \in Snapshots(u, promo)} :
           u \in {x \in LoggedPolls : x < t}, promo \in {"2/3", "free_hit"}}

\* the sheets after at most n such polls, each in a process lifetime of its own
RECURSIVE LoggedAfter(_, _)
LoggedAfter(n, t) ==
  IF n = 0 THEN {EmptySheets}
  ELSE LET prev == LoggedAfter(n - 1, t)
       IN  prev \cup UNION {PollOnce(sh, t) : sh \in prev}

\* the instant at which settlement is observed: the first race is pending
SETTLE_AT == T1 + PENDING_AFTER + 1

\* settlement of the rows the tracking loop has logged: the results loop and
\* the manual command
InitSettle ==
  /\ now = SETTLE_AT
  /\ InitAggIdle
  /\ tracked_this_session = << >>
  /\ tracked_races = << >>
  /\ sheets \in LoggedAfter(MaxRows, SETTLE_AT)
  /\ nextPromo = 1
  /\ pending = << >>
  /\ official = [r \in 1..Len(BotCatalog) |-> None]
  /\ ret = None
  /\ restarts = 0
  /\ updates = 0

\* _track_promo hands the snapshot get_next_race returned to log_opportunity
\* (bot.py 162-176); the tracking loop asks for the 2/3 and free_hit promos
\* with the default lay mode
LogReturned ==
  /\ aggPc = "done"
  /\ aggResult # None
  /\ call.promo \in {"2/3", "free_hit"}
  /\ call.lay_mode = "lay"
  /\ \E timing \in Timings, appendOk \in BOOLEAN :
       LET logged == log_opportunity(tracked_races, sheets, Val(aggResult), timing,
                                     appendOk)
       IN  /\ TotalRows(logged.sheets) <= MaxRows
           /\ tracked_races' = logged.tracked_races
           /\ sheets' = logged.sheets
  /\ UNCHANGED << now, tracked_this_session, nextPromo, pending, official, ret,
                  restarts, updates >>
  /\ UNCHANGED aggVars

\* the pending list around the moment the first race becomes due: the manual
\* command settles rows, the results loop reads the list
InitPending ==
  /\ now \in {T1 + PENDING_AFTER, SETTLE_AT}
  /\ InitAggIdle
  /\ tracked_this_session = << >>
  /\ tracked_races = << >>
  /\ sheets \in LoggedAfter(MaxRows, SETTLE_AT)
  /\ nextPromo = 1
  /\ pending = << >>
  /\ official = [r \in 1..Len(BotCatalog) |-> None]
  /\ ret = None
  /\ restarts = 0
  /\ updates = 0

NextPending == ManualUpdate \/ ResultsStart

SpecPending == InitPending /\ [][NextPending]_vars

NextSettle ==
  \/ RaceFinishes
  \/ ResultsStart
  \/ ResultsStep
  \/ ManualUpdate

SpecSettle == InitSettle /\ [][NextSettle]_vars

\* the polls inside the one-minute window of either race of the catalog
LedgerPolls ==
  {x \in Instants : \E r \in 1..Len(BotCatalog) :
     InWindow("1min", BotCatalog[r].start_time - x)}

\* the sheets a fresh process leaves after one such poll, starting from sh
LedgerPollOnce(sh) ==
  UNION {{track_promo(<< >>, << >>, sh, race_data, promo, TRUE).sheets :
            race_data \in Snapshots(u, promo)} :
           u \in LedgerPolls, promo \in {"2/3", "free_hit"}}

\* the sheets after at most n such polls
RECURSIVE LedgerAfter(_)
LedgerAfter(n) ==
  IF n = 0 THEN {EmptySheets}
  ELSE LET prev == LedgerAfter(n - 1)
       IN  prev \cup UNION {LedgerPollOnce(sh) : sh \in prev}

\* the races of the ledger a user may name: the one of either day
LedgerKeys ==
  {[venue |-> BotCatalog[r].venue, race |-> BotCatalog[r].race_number,
    date |-> LocalDate(BotCatalog[r].start_time)] : r \in 1..Len(BotCatalog)}

\* the /update_result command for a race of either day
LedgerUpdate ==
  \E sheet \in SheetNames, key \in LedgerKeys, position \in ManualPositions,
     io \in SheetIO :
    ManualUpdateCall(sheet, key, position, io)

\* a sheet with rows of both days, settled by the manual command once both
\* races are over
InitLedger ==
  /\ now = BotCatalog[2].start_time + PENDING_AFTER + 1
  /\ InitAggIdle
  /\ tracked_this_session = << >>
  /\ tracked_races = << >>
  /\ sheets \in LedgerAfter(MaxRows)
  /\ nextPromo = 1
  /\ pending = << >>
  /\ official = [r \in 1..Len(BotCatalog) |-> None]
  /\ ret = None
  /\ restarts = 0
  /\ updates = 0

NextLedger == LedgerUpdate

SpecLedger == InitLedger /\ [][NextLedger]_vars

\* what the sheet service does during a reconciliation cycle that is observed
\* for ever: it is unreachable, or every call succeeds
ReconcileIO == {[read |-> FALSE, done |-> 0, cum |-> FALSE], AllOk}

\* one iteration of the loop over the pending list (bot.py 211-255), not
\* counted
CycleStepCall(found, results, io) ==
  /\ pending # << >>
  /\ results \in ResultsFor(Head(pending))
  /\ LET res == process_pending(sheets, ret, Head(pending), found, results, io)
     IN  sheets' = res.sheets /\ ret' = res.ret
  /\ pending' = Tail(pending)
  /\ UNCHANGED << now, tracked_this_session, tracked_races, nextPromo,
                  official, restarts, updates >>
  /\ UNCHANGED aggVars

CycleStep ==
  /\ pending # << >>
  /\ \E found \in BOOLEAN, results \in ResultsFor(Head(pending)),
        io \in ReconcileIO :
       CycleStepCall(found, results, io)

\* the iteration in which the race is found, its results are returned and
\* every sheet call succeeds
CycleStepGood ==
  /\ pending # << >>
  /\ LET r == RaceOf(Head(pending).date, Head(pending).venue, Head(pending).race)
     IN  /\ r # 0
         /\ official[r] # None
         /\ CycleStepCall(TRUE, official[r], AllOk)

NextReconcile == RaceFinishes \/ ResultsStart \/ CycleStep

\* the results loop run for ever on the logged rows: a cycle starts every
\* five minutes (bot.py 196), and the lookups and sheet calls of an iteration
\* succeed again and again
SpecReconcile ==
  /\ InitSettle
  /\ [][NextReconcile]_vars
  /\ WF_vars(ResultsStart)
  /\ WF_vars(CycleStep)
  /\ SF_vars(CycleStepGood)

\* one process lifetime of the tracker, called by the tracking loop and directly
NextApi ==
  \/ Tick
  \/ TrackNoRace
  \/ TrackPromo
  \/ LogOpportunity

SpecApi == Init /\ [][NextApi]_vars

\* what the reference exchange can list for one race of the catalog
RaceOptions ==
  {[status |-> "OPEN", start_time |-> 0 - 30],
   [status |-> "OPEN", start_time |-> 40],
   [status |-> "OPEN", start_time |-> 60],
   [status |-> "SUSPENDED", start_time |-> 50],
   [status |-> "CLOSED", start_time |-> 45]}

AggVenue(i) ==
  CASE i = 1 -> "Sandown" [] i = 2 -> "Flemington" [] OTHER -> "Randwick"

AggCatalogs ==
  {[i \in 1..MaxRaces |->
      [venue |-> AggVenue(i), race_number |-> i, market_id |-> i,
       status |-> o[i].status, start_time |-> o[i].start_time]] :
     o \in [1..MaxRaces -> RaceOptions]}

AggPromos == {"2/3", "free_hit", "bonus"}

\* one get_next_race call
InitAgg ==
  /\ now = 0
  /\ InitBotVars
  /\ catalog \in AggCatalogs
  /\ call \in [promo : AggPromos, lay_mode : {"lay"}]
  /\ aggPc = "fetch"
  /\ attempt = 0
  /\ upcoming_races = << >>
  /\ idx = 1
  /\ fanLog = << >>
  /\ fanOut = NoFanOut
  /\ lookup = NoLookup
  /\ aggResult = None

NextAgg == AggFetch \/ AggFanOut

SpecAgg == InitAgg /\ [][NextAgg]_vars

\* the catalog of the fan-out runs: two open races to come
FanCatalog ==
  [i \in 1..2 |->
     [venue |-> AggVenue(i), race_number |-> i, market_id |-> i,
      status |-> "OPEN", start_time |-> 40 + 20 * i]]

LayModes == {"lay", "half_lay", "no_lay"}

\* one get_next_race call whose sources can raise
InitFan ==
  /\ now = 0
  /\ InitBotVars
  /\ catalog = FanCatalog
  /\ call \in [promo : AggPromos, lay_mode : LayModes]
  /\ aggPc = "fetch"
  /\ attempt = 0
  /\ upcoming_races = << >>
  /\ idx = 1
  /\ fanLog = << >>
  /\ fanOut = NoFanOut
  /\ lookup = NoLookup
  /\ aggResult = None

NextFan == AggFetch \/ AggFanOutFailing

SpecFan == InitFan /\ [][NextFan]_vars

\* one get_next_race call whose sources can raise, and the logging of what
\* it returned
NextBest == AggFetch \/ AggFanOutFailing \/ LogReturned

SpecBest == InitFan /\ [][NextBest]_vars

\* one find_race call of any bookmaker source for race 1 at Sandown or
\* Sandown Park
InitMatch ==
  /\ now = 0
  /\ InitBotVars
  /\ catalog = << >>
  /\ call = [promo |-> "2/3", lay_mode |-> "lay"]
  /\ aggPc = "done"
  /\ attempt = 0
  /\ upcoming_races = << >>
  /\ idx = 1
  /\ fanLog = << >>
  /\ fanOut = NoFanOut
  /\ aggResult = None
  /\ \E source \in Bookies, meetings \in SourceCatalogs,
        venue \in {Sandown, SandownPark} :
       lookup = [pc |-> "call", source |-> source, meetings |-> meetings,
                 venue |-> venue, race_number |-> 1, start_time |-> QUERY_TIME,
                 result |-> None]

NextMatch == FindRace

SpecMatch == InitMatch /\ [][NextMatch]_vars

(***************************************************************************)
(* Properties of get_next_race                                             *)
(***************************************************************************)
\* the candidate list is in ascending start-time order
AscendingStart(races) ==
  \A i, j \in 1..Len(races) : i < j => races[i].start_time <= races[j].start_time

SameRace(snapshot, race) ==
  /\ snapshot.venue = race.venue
  /\ snapshot.race_number = race.race_number
  /\ snapshot.start_time = race.start_time

\* C1: get_next_race fans the candidates out in the order of the reference
\* list, which is ascending in start time; only the last fan-out round made
\* can have found coverage; when the call has returned a snapshot it is the
\* snapshot of the candidate of that last round, which had coverage (so no
\* earlier candidate had); when it has returned none, either three fetches
\* brought no list or every candidate was fanned out and none had coverage.
C1_EarliestCovered ==
  /\ AscendingStart(upcoming_races)
  /\ Len(fanLog) <= Len(upcoming_races)
  /\ \A k \in 1..Len(fanLog) :
       /\ fanLog[k].market_id = upcoming_races[k].market_id
       /\ k < Len(fanLog) => fanLog[k].covered = {}
  /\ aggPc = "done" =>
       IF aggResult # None
       THEN /\ Len(fanLog) >= 1
            /\ fanLog[Len(fanLog)].covered # {}
            /\ SameRace(Val(aggResult), upcoming_races[Len(fanLog)])
       ELSE /\ \A k \in 1..Len(fanLog) : fanLog[k].covered = {}
            /\ Len(fanLog) = Len(upcoming_races)
            /\ upcoming_races = << >> => attempt = MAX_ATTEMPTS

\* C1 happens: the call returned the second candidate of a list whose order
\* differs from the catalog's, the first candidate having had no coverage
C1_Witness ==
  /\ aggPc = "done"
  /\ aggResult # None
  /\ Len(fanLog) = 2
  /\ upcoming_races[1].market_id > upcoming_races[2].market_id
  /\ upcoming_races[1].start_time < upcoming_races[2].start_time

(***************************************************************************)
(* Properties of the tracking loop and of log_opportunity                  *)
(***************************************************************************)
\* the rows of a sheet that record the race of a snapshot
RowsOfRace(rows, race_data) ==
  {i \in 1..Len(rows) :
     /\ rows[i].venue = race_data.venue
     /\ rows[i].race = race_data.race_number
     /\ rows[i].date = LocalDate(race_data.start_time)
     /\ rows[i].time = LocalTime(race_data.start_time)}

\* the rows of a sheet for a venue and race number, whatever the day
RowsOfVenueRace(rows, race_data) ==
  {i \in 1..Len(rows) :
     rows[i].venue = race_data.venue /\ rows[i].race = race_data.race_number}

\* the poll the tracking loop makes now observes race_data inside the window of
\* the checkpoint with a usable pair, and the sheet append succeeds
UsablePoll(race_data, timing) ==
  /\ race_data \in Snapshots(now, TrackPromos[nextPromo])
  /\ InWindow(timing, race_data.seconds_until_start)
  /\ best_ev_of(race_data) # None
  /\ TrackPromoCall(race_data, TRUE)

\* C2: a poll under free_hit that observes, inside a checkpoint window and
\* with a usable pair, a race whose row for that checkpoint is already in the
\* 2/3 sheet and not yet in the FreeHit sheet, appends the FreeHit row.
C2_BothPromosLogged ==
  [][\A timing \in Timings :
       \A race_data \in Snapshots(now, "free_hit") :
         ( /\ TrackPromos[nextPromo] = "free_hit"
           /\ RowsOfRace(sheets[SheetOf("2/3", timing)], race_data) # {}
           /\ RowsOfRace(sheets[SheetOf("free_hit", timing)], race_data) = {}
           /\ ~FlagsOf(tracked_this_session,
                       BotKey(race_data, "free_hit"))[timing]
           /\ UsablePoll(race_data, timing) )
         => RowsOfRace(sheets'[SheetOf("free_hit", timing)], race_data) # {}]_vars

\* every race and checkpoint has at most one row in each sheet
AtMostOneRow ==
  \A t \in DOMAIN SnapshotTable : \A race_data \in SnapshotTable[t] :
    \A n \in SheetNames : Cardinality(RowsOfRace(sheets[n], race_data)) <= 1

\* a log_opportunity call for a checkpoint the tracker has not logged, with a
\* usable pair and a successful append, leaves exactly one row of the race in
\* the checkpoint's sheet; a call for a logged checkpoint changes no sheet
ExactlyOneRow ==
  \A race_data \in AllSnapshots(now), timing \in Timings :
    LogOpportunityCall(race_data, timing, TRUE) =>
      IF FlagsOf(tracked_races, get_race_key(race_data))[timing]
      THEN sheets' = sheets
      ELSE best_ev_of(race_data) # None =>
             Cardinality(RowsOfRace(sheets'[SheetOf(race_data.promo, timing)],
                                    race_data)) = 1

\* C3: within one process lifetime, whatever log_opportunity calls and
\* tracking polls are made, a sheet never holds more than one row of a race,
\* and a call that finds a usable pair for an unlogged checkpoint and whose
\* append succeeds leaves exactly one.
C3_OneRowPerCheckpoint == [](AtMostOneRow) /\ [][ExactlyOneRow]_vars

\* C3 happens: a checkpoint's row is in its sheet and log_opportunity has
\* been called again for it (the bot's flags show a poll the tracker's do not)
C3_Witness ==
  \E race_data \in AllSnapshots(now) :
    /\ Cardinality(RowsOfRace(sheets[SheetOf(race_data.promo, "1min")], race_data)) = 1
    /\ FlagsOf(tracked_races, get_race_key(race_data))["1min"]
    /\ FlagsOf(tracked_this_session, BotKey(race_data, "2/3"))["1min"]
    /\ FlagsOf(tracked_this_session, BotKey(race_data, "free_hit"))["1min"]

\* C4: a poll that observes a race inside a checkpoint window with a usable
\* pair, while no row of that venue and race number is in the checkpoint's
\* sheets (an earlier poll of the window having found no usable pair),
\* appends the row.
C4_RetryAfterUnusablePoll ==
  [][\A timing \in Timings :
       \A race_data \in Snapshots(now, TrackPromos[nextPromo]) :
         ( /\ \A p \in {"2/3", "free_hit"} :
                RowsOfVenueRace(sheets[SheetOf(p, timing)], race_data) = {}
           /\ UsablePoll(race_data, timing) )
         => RowsOfRace(sheets'[SheetOf(race_data.promo, timing)], race_data) # {}]_vars

\* C5: a poll that observes, inside a checkpoint window and with a usable
\* pair, a race that has no row in the checkpoint's sheets while the race of
\* the same venue and number of another day has one, appends the row.
C5_KeyedByStartMinute ==
  [][\A timing \in Timings :
       \A race_data \in Snapshots(now, TrackPromos[nextPromo]) :
         ( /\ \A p \in {"2/3", "free_hit"} :
                RowsOfRace(sheets[SheetOf(p, timing)], race_data) = {}
           /\ RowsOfVenueRace(sheets[SheetOf(race_data.promo, timing)],
                              race_data) # {}
           /\ UsablePoll(race_data, timing) )
         => RowsOfRace(sheets'[SheetOf(race_data.promo, timing)], race_data) # {}]_vars

(***************************************************************************)
(* Properties of settlement                                                *)
(***************************************************************************)
\* the rows of a sheet that match a date, venue and race number
MatchingRows(rows, key) ==
  {i \in 1..Len(rows) :
     rows[i].date = key.date /\ rows[i].venue = key.venue /\ rows[i].race = key.race}

\* another update_results call can be made
CanUpdate == updates < MaxUpdates

\* C6: whenever a sheet holds no unsettled row matching the date, venue and
\* race number of an update_results call, the call returns false and leaves
\* every sheet as it was.
C6_FalseWithoutUnsettledMatch ==
  CanUpdate =>
    \A sheet \in SheetNames, key \in ManualKeys :
      (\A i \in MatchingRows(sheets[sheet], key) : sheets[sheet][i].result # None)
      => \A position \in ManualPositions, io \in SheetIO :
           LET res == update_results(sheets, sheet, key.venue, key.race, key.date,
                                     position, io)
           IN  res.ret = FALSE /\ res.sheets = sheets

\* a step of the reconciliation cycle: it takes the head of its pending list
ReconcileStep == pending # << >> /\ pending' = Tail(pending)

\* the lookup for a pending entry failed: race not found, no results, or no
\* entry for the logged horse
LookupFailed(race, found, results) ==
  \/ ~found
  \/ results = None
  \/ race.horse \notin DOMAIN Val(results)

\* the label of the position the results source reports for the row's horse
ReportedLabel(row) ==
  LET r == RaceOf(row.date, row.venue, row.race)
  IN  IF r = 0 THEN None
      ELSE IF official[r] = None THEN None
      ELSE IF row.horse \notin DOMAIN Val(official[r]) THEN None
      ELSE Some(ResultLabel(Val(official[r])[row.horse]))

\* C7: a reconciliation step whose lookup failed changes no sheet, and a
\* reconciliation step that changes the result of a row writes the label of
\* the position the results source reported for that row's horse.
C7_ResultOnlyFromReportedPosition ==
  [][ReconcileStep =>
       /\ \A found \in BOOLEAN, results \in ResultsFor(Head(pending)), io \in SheetIO :
            ( /\ LookupFailed(Head(pending), found, results)
              /\ ResultsStepCall(found, results, io) )
            => sheets' = sheets
       /\ \A n \in SheetNames : \A i \in 1..Len(sheets[n]) :
            sheets'[n][i].result # sheets[n][i].result
            => sheets'[n][i].result = ReportedLabel(sheets[n][i])]_vars

\* C8: every row has its result label and its three P/L cells all written or
\* all empty.
C8_AllOrNothing ==
  \A n \in SheetNames : \A i \in 1..Len(sheets[n]) :
    LET row == sheets[n][i]
    IN  \/ row.result = None /\ row.pl_no_lay = None /\ row.pl_half = None
           /\ row.pl_full = None
        \/ row.result # None /\ row.pl_no_lay # None /\ row.pl_half # None
           /\ row.pl_full # None

\* the sum of a P/L column over the settled rows at or above row k
RECURSIVE SettledSum(_, _, _)
SettledSum(rows, k, col) ==
  IF k = 0 THEN 0
  ELSE SettledSum(rows, k - 1, col)
       + (IF rows[k].result # None /\ rows[k][col] # None THEN Val(rows[k][col]) ELSE 0)

CumulativeInSync(rows) ==
  \A i \in 1..Len(rows) :
    rows[i].result # None =>
      /\ rows[i].cum_no_lay = Some(SettledSum(rows, i, "pl_no_lay"))
      /\ rows[i].cum_half = Some(SettledSum(rows, i, "pl_half"))
      /\ rows[i].cum_full = Some(SettledSum(rows, i, "pl_full"))

\* C9: whenever an update_results call returns true, the cumulative cells of
\* every settled row of its sheet equal the sums of the P/L values over the
\* settled rows at or above it.
C9_CumulativeAfterTrue ==
  CanUpdate =>
    \A sheet \in SheetNames, key \in ManualKeys, position \in ManualPositions,
       io \in SheetIO :
      LET res == update_results(sheets, sheet, key.venue, key.race, key.date,
                                position, io)
      IN  res.ret => CumulativeInSync(res.sheets[sheet])

\* C10: an update_results call for a losing or placed position writes the
\* half-lay and full-lay P/L computed with the commission rate of the race's
\* jurisdiction.
C10_JurisdictionCommission ==
  CanUpdate =>
    \A sheet \in SheetNames, key \in ManualKeys, position \in ManualPositions \ {1} :
      LET rows == sheets[sheet]
          i == FirstMatch(rows, key.date, key.venue, key.race)
          res == update_results(sheets, sheet, key.venue, key.race, key.date,
                                position, AllOk)
          due == ProfitLoss(sheet, position, rows[i].back, rows[i].lay,
                            BETFAIR_COMMISSION(StateOfVenue(key.venue)))
      IN  i # 0 =>
            /\ res.sheets[sheet][i].pl_half = Some(due.pl_half)
            /\ res.sheets[sheet][i].pl_full = Some(due.pl_full)

(***************************************************************************)
(* Properties of the fan-out                                               *)
(***************************************************************************)
\* the last fan-out round produced the snapshot the call returned
Returned == aggPc = "done" /\ aggResult # None

WithinTolerance(race, start_time) ==
  /\ race.start_time # None
  /\ Abs(Val(race.start_time) - start_time) <= TOLERANCE

\* some meeting of the catalog qualifies by venue and has a race starting
\* within the tolerance of the query
HasTimelyRace(meetings, venue, start_time) ==
  \E m \in 1..Len(meetings) :
    /\ VenueQualifies(meetings[m].venue, venue)
    /\ \E k \in 1..Len(meetings[m].races) :
         WithinTolerance(meetings[m].races[k], start_time)

\* C12: for every bookmaker source, find_race returns a race only if the
\* venue of its meeting qualifies and its start time is within 300 seconds of
\* the query's; when no race of a qualifying meeting starts within 300
\* seconds it returns none.
C12_OnlyWithinTolerance ==
  lookup.pc = "done" =>
    /\ lookup.result # None =>
         /\ VenueQualifies(Val(lookup.result).venue, lookup.venue)
         /\ WithinTolerance(Val(lookup.result), lookup.start_time)
    /\ ~HasTimelyRace(lookup.meetings, lookup.venue, lookup.start_time) =>
         lookup.result = None

\* C13: for every bookmaker source, when a meeting of the catalog qualifies
\* by venue and one of its races starts within 300 seconds of the query,
\* find_race returns a match, whatever the race numbers are.
C13_TimelyRaceMatched ==
  (lookup.pc = "done"
     /\ HasTimelyRace(lookup.meetings, lookup.venue, lookup.start_time))
    => lookup.result # None

(***************************************************************************)
(* Properties of the results loop                                          *)
(***************************************************************************)
\* the results source reports the logged horse of the entry as void
VoidFor(race, results) ==
  /\ results # None
  /\ race.horse \in DOMAIN Val(results)
  /\ Val(results)[race.horse] = 0 - 1

\* C14: a reconciliation step whose results report the logged horse as void
\* (position -1) makes no update_results call and writes nothing: every sheet,
\* with its result, P/L and cumulative cells, is as before, and the rows
\* pending before the step are pending after it.
C14_VoidNeverWritten ==
  [][ReconcileStep =>
       \A found \in BOOLEAN, results \in ResultsFor(Head(pending)), io \in SheetIO :
         ( /\ found
           /\ VoidFor(Head(pending), results)
           /\ ResultsStepCall(found, results, io) )
         => /\ sheets' = sheets
            /\ updates' = updates
            /\ ret' = ret
            /\ get_pending_results(sheets', now', TRUE)
                 = get_pending_results(sheets, now, TRUE)]_vars

\* C14 happens: the results loop has gone past the first pending entry, whose
\* horse the results source reports as void; the row is unsettled and pending
C14_Witness ==
  /\ updates = 0
  /\ LET listed == get_pending_results(sheets, now, TRUE)
     IN  /\ Len(listed) >= 2
         /\ pending = Tail(listed)
         /\ LET r == RaceOf(listed[1].date, listed[1].venue, listed[1].race)
            IN  /\ r # 0
                /\ VoidFor(listed[1], official[r])

(***************************************************************************)
(* Properties of the reference list retry                                  *)
(***************************************************************************)
\* C15: get_next_race fetches the reference list at most 3 times per call;
\* while it is still fetching every fetch so far came back empty, so the
\* first non-empty list ends the retries; and when it returns with an empty
\* list it has made all 3 fetches, has made no fan-out round and returns none.
C15_BoundedRetry ==
  /\ attempt <= 3
  /\ aggPc = "fetch" => (upcoming_races = << >> /\ attempt < 3)
  /\ aggPc = "loop" => upcoming_races # << >>
  /\ fanLog # << >> => upcoming_races # << >>
  /\ (aggPc = "done" /\ upcoming_races = << >>) =>
       (attempt = 3 /\ fanLog = << >> /\ fanOut = NoFanOut /\ aggResult = None)

\* C15 happens: three fetches came back empty and the call returned none
\* although the catalog has a race to come
C15_Witness ==
  /\ aggPc = "done"
  /\ attempt = 3
  /\ upcoming_races = << >>
  /\ aggResult = None
  /\ find_upcoming_races(catalog, now, LIMIT) # << >>

(***************************************************************************)
(* Properties of the snapshot                                              *)
(***************************************************************************)
\* the bookmakers that quote horse h in the gathered results
QuotedBy(h) == {b \in Bookies : QuoteOf(fanOut.data[b], h) # None}

\* C16: every runner of a returned snapshot is in the runner map the exchange
\* branch handed back and its status there is not REMOVED, whatever the
\* bookmakers quote; no runner is listed twice.
C16_OnlyActiveExchangeRunners ==
  Returned =>
    LET runners == Val(aggResult).runners
    IN  /\ \A i \in 1..Len(runners) :
             /\ runners[i].horse_number \in DOMAIN fanOut.betfair.runners
             /\ fanOut.betfair.runners[runners[i].horse_number].status # "REMOVED"
        /\ \A i, j \in 1..Len(runners) :
             runners[i].horse_number = runners[j].horse_number => i = j

\* C16 happens: the snapshot returned has runners, and bookmakers quote a
\* horse the exchange has removed and a horse the exchange does not list
C16_Witness ==
  /\ Returned
  /\ Val(aggResult).runners # << >>
  /\ \E h \in DOMAIN fanOut.betfair.runners :
       fanOut.betfair.runners[h].status = "REMOVED" /\ QuotedBy(h) # {}
  /\ \E h \in 1..7 :
       h \notin DOMAIN fanOut.betfair.runners /\ QuotedBy(h) # {}

\* the source of bookmaker b holds no usable quote for horse h: the horse is
\* missing from its runner map, scratched, or its price is missing or zero
NoQuote(b, h) ==
  \/ h \notin DOMAIN fanOut.data[b].runners
  \/ fanOut.data[b].runners[h].scratched
  \/ Falsy(fanOut.data[b].runners[h].win_odds)

\* a lay price the promo's EV needs is missing or zero
NoLayPrice(runner, promo) ==
  \/ Falsy(runner.lay_win)
  \/ promo \notin {"free_hit", "bonus"} /\ Falsy(runner.lay_place)

\* C17: in every composite runner of a returned snapshot the EV of a
\* bookmaker is null whenever that bookmaker has no usable quote for the
\* horse (missing, zero or scratched), whenever the quote listed is null or
\* zero, and whenever a required lay price is null or zero (the lay-win price
\* for every promo, the lay-place price too for 2/3).
C17_NullEvWithoutPrices ==
  Returned =>
    LET snapshot == Val(aggResult)
    IN  \A i \in 1..Len(snapshot.runners), b \in Bookies :
          LET runner == snapshot.runners[i]
          IN  ( \/ NoQuote(b, runner.horse_number)
                \/ Falsy(runner[b].odds)
                \/ NoLayPrice(runner, snapshot.promo) )
              => runner[b].ev = None

\* C17 happens: a 2/3 snapshot has a bookmaker with a priced pair, the same
\* bookmaker with a quote but no place price and a null EV, and a bookmaker
\* whose zero quote has a null EV
C17_Witness ==
  /\ Returned
  /\ Val(aggResult).promo = "2/3"
  /\ LET runners == Val(aggResult).runners
     IN  \E i, j, k \in 1..Len(runners) : \E b, c \in Bookies :
           /\ runners[i][b].ev # None
           /\ ~Falsy(runners[j][b].odds)
           /\ ~Falsy(runners[j].lay_win)
           /\ Falsy(runners[j].lay_place)
           /\ runners[j][b].ev = None
           /\ runners[k][c].odds = Some(0)
           /\ runners[k][c].ev = None

(***************************************************************************)
(* Properties of the P/L written by update_results                         *)
(***************************************************************************)
\* the P/L case the spec names for a sheet and a position
PlCase(sheet, position) ==
  IF position = 1 THEN "win"
  ELSE IF sheet \in {"FreeHit-1min", "FreeHit-30s"} THEN "bonus"
  ELSE IF position \in {2, 3} THEN "bonus"
  ELSE "loss"

\* the row is the spec's example: back 3.00, lay 2.50
IsExampleRow(row) == row.back = Some(300) /\ row.lay = Some(250)

\* C18: an update_results call that finds its row and completes its writes
\* writes the P/L of the case chosen by sheet and position: position 1 is a
\* win on both promos (no-lay P/L is back - 1), on a 2/3 sheet positions 2
\* and 3 are the bonus case (no-lay P/L is -0.30) and any other position a
\* loss (no-lay P/L is -1), on a FreeHit sheet every non-win is the bonus
\* case; the bonus case's full-lay P/L exceeds the loss case's by the bonus
\* retention 0.70; and for position 1 with back 3.0 and lay 2.5 the values
\* written are 2.0, 1.1 and 0.2.
C18_PlByPromoAndPosition ==
  CanUpdate =>
    \A sheet \in SheetNames, key \in ManualKeys, position \in ManualPositions :
      LET rows == sheets[sheet]
          i == FirstMatch(rows, key.date, key.venue, key.race)
          res == update_results(sheets, sheet, key.venue, key.race, key.date,
                                position, AllOk)
          row == res.sheets[sheet][i]
          lost == update_results(sheets, "2/3-1min", key.venue, key.race, key.date,
                                 0, AllOk).sheets["2/3-1min"]
          j == FirstMatch(sheets["2/3-1min"], key.date, key.venue, key.race)
      IN  i # 0 =>
            /\ res.ret
            /\ row.result = Some(ResultLabel(position))
            /\ CASE PlCase(sheet, position) = "win" ->
                      row.pl_no_lay = Some(Val(rows[i].back) - 100)
                 [] PlCase(sheet, position) = "bonus" ->
                      /\ row.pl_no_lay = Some(0 - 30)
                      /\ (j # 0 /\ lost[j].back = rows[i].back
                                /\ lost[j].lay = rows[i].lay)
                         => Val(row.pl_full) = Val(lost[j].pl_full) + 70
                 [] OTHER -> row.pl_no_lay = Some(0 - 100)
            /\ (position = 1 /\ IsExampleRow(rows[i])) =>
                 /\ row.pl_no_lay = Some(200)
                 /\ row.pl_half = Some(110)
                 /\ row.pl_full = Some(20)

\* C18 happens: the example row has been settled as a winner on a 2/3 sheet
\* while a FreeHit row has been settled as a non-winner with the bonus
C18_Witness ==
  /\ \E i \in 1..Len(sheets["2/3-1min"]) :
       LET row == sheets["2/3-1min"][i]
       IN  /\ IsExampleRow(row)
           /\ row.result = Some("1st")
           /\ row.pl_no_lay = Some(200)
           /\ row.pl_half = Some(110)
           /\ row.pl_full = Some(20)
  /\ \E i \in 1..Len(sheets["FreeHit-1min"]) :
       LET row == sheets["FreeHit-1min"][i]
       IN  row.result = Some("4th+") /\ row.pl_no_lay = Some(0 - 30)

(***************************************************************************)
(* Properties of the pending list                                          *)
(***************************************************************************)
\* the rows of a sheet that are due: no result, recorded start more than 900
\* seconds ago
DueRows(n) ==
  {i \in 1..Len(sheets[n]) :
     sheets[n][i].result = None /\ now - RaceDt(sheets[n][i]) > 900}

\* the pending entry describes the row
EntryOf(e, n, row) ==
  /\ e.sheet = n
  /\ e.date = row.date /\ e.time = row.time
  /\ e.venue = row.venue /\ e.race = row.race /\ e.horse = row.horse

BookieIndex(b) == CHOOSE k \in 1..Len(BOOKIES) : BOOKIES[k] = b

\* the (runner index, bookmaker) pairs whose quote and EV are both non-null
Eligible(runners) ==
  {p \in (1..Len(runners)) \X Bookies :
     runners[p[1]][p[2]].odds # None /\ runners[p[1]][p[2]].ev # None}

\* p is met before q: runners in snapshot order, bookmakers in BOOKIES order
Earlier(p, q) ==
  \/ p[1] < q[1]
  \/ p[1] = q[1] /\ BookieIndex(p[2]) < BookieIndex(q[2])

PairEv(runners, p) == Val(runners[p[1]][p[2]].ev)

\* p has the highest EV of the eligible pairs and is the first met of those
\* that have it
IsBestPair(runners, p) ==
  /\ p \in Eligible(runners)
  /\ \A q \in Eligible(runners) :
       /\ PairEv(runners, q) <= PairEv(runners, p)
       /\ (PairEv(runners, q) = PairEv(runners, p) /\ q # p) => Earlier(p, q)

\* C20: every row logged from the snapshot get_next_race returned names the
\* (runner, bookmaker) pair that has the highest EV among the pairs whose
\* quote and EV are both non-null, the first met among equals (runners in
\* snapshot order, bookmakers in BOOKIES order), with that pair's quote as
\* its back price; and no pair is selected only when no pair is eligible.
C20_BestPairLogged ==
  /\ \A n \in SheetNames : \A r \in 1..Len(sheets[n]) :
       /\ aggResult # None
       /\ \E i \in 1..Len(Val(aggResult).runners) :
            /\ Val(aggResult).runners[i].horse_number = sheets[n][r].horse
            /\ IsBestPair(Val(aggResult).runners, << i, sheets[n][r].bookie >>)
            /\ sheets[n][r].back = Val(aggResult).runners[i][sheets[n][r].bookie].odds
  /\ (aggPc = "done" /\ aggResult # None) =>
       (best_ev_of(Val(aggResult)) = None <=> Eligible(Val(aggResult).runners) = {})

\* C20 happens: a row was logged from a snapshot in which another pair has
\* the same EV as the logged one and a third pair a lower EV
C20_Witness ==
  \E n \in SheetNames : \E r \in 1..Len(sheets[n]) :
    LET runners == Val(aggResult).runners
    IN  \E p, q, w \in Eligible(runners) :
          /\ runners[p[1]].horse_number = sheets[n][r].horse
          /\ p[2] = sheets[n][r].bookie
          /\ q # p
          /\ PairEv(runners, q) = PairEv(runners, p)
          /\ PairEv(runners, w) < PairEv(runners, p)

(***************************************************************************)
(* C21: checkpoint windows                                                 *)
(***************************************************************************)
\* the checkpoint a sheet belongs to
TimingOfSheet(n) == IF n \in {"2/3-1min", "FreeHit-1min"} THEN "1min" ELSE "30s"

\* seconds before the start of a race at which a checkpoint may log
WindowLow(timing) == IF timing = "1min" THEN 50 ELSE 20

WindowHigh(timing) == IF timing = "1min" THEN 70 ELSE 40

\* the catalog races that are inside the window of a checkpoint now
RacesInWindow(timing) ==
  {i \in 1..Len(BotCatalog) :
     /\ WindowLow(timing) <= BotCatalog[i].start_time - now
     /\ BotCatalog[i].start_time - now <= WindowHigh(timing)}

\* C21: a step that appends a row to a one-minute sheet is a poll of a race
\* that starts in 50 to 70 seconds, a step that appends to a thirty-second
\* sheet is a poll of a race that starts in 20 to 40 seconds, and a session
\* checkpoint flag is raised only for a race inside that checkpoint's window;
\* so a poll of a race outside both windows appends no row and raises no flag.
C21_OnlyInsideWindow ==
  [][/\ \A n \in SheetNames :
          Len(sheets'[n]) > Len(sheets[n]) =>
            LET row == sheets'[n][Len(sheets'[n])]
            IN  /\ Len(sheets'[n]) = Len(sheets[n]) + 1
                /\ RaceOf(row.date, row.venue, row.race) \in
                     RacesInWindow(TimingOfSheet(n))
     /\ \A key \in DOMAIN tracked_this_session' : \A t \in Timings :
          (tracked_this_session'[key][t] /\ ~FlagsOf(tracked_this_session, key)[t])
            => \E i \in RacesInWindow(t) :
                 /\ BotCatalog[i].venue = key[1]
                 /\ BotCatalog[i].race_number = key[2]]_vars

\* C21 happens: inside the thirty-second window of the first race a poll has
\* logged the thirty-second row and no one-minute row, and a poll of the other
\* promo that got the next day's race (outside both windows) left its
\* checkpoint flags down
C21_Witness ==
  /\ now = T1 - 30
  /\ Len(sheets["2/3-30s"]) = 1
  /\ Len(sheets["2/3-1min"]) = 0
  /\ << "Randwick", 1, "free_hit" >> \in DOMAIN tracked_this_session
  /\ tracked_this_session[<< "Randwick", 1, "free_hit" >>] = NoFlags
  /\ TotalRows(sheets) = 1

(***************************************************************************)
(* C22: the commission rate of a snapshot                                  *)
(***************************************************************************)
\* the rate the table of config.py gives for a state, in percent
TableRate(state) ==
  IF state \in {"NSW", "ACT"} THEN 10
  ELSE IF state \in {"VIC", "QLD", "SA", "WA", "TAS", "NT"} THEN 8
  ELSE 8

C23_RescanIdempotent ==
  \A n \in SheetNames :
    LET once == update_cumulative_totals(sheets[n], TRUE)
    IN  update_cumulative_totals(once, TRUE) = once

\* C23 happens: a sheet holds two rows with a P/L of which the second has a
\* running total that differs from its own P/L, and a rescan has work to do
\* on it (the last settlement's rescan failed)
C23_Witness ==
  \E n \in SheetNames :
    /\ Len(sheets[n]) = 2
    /\ sheets[n][1].pl_no_lay # None
    /\ sheets[n][2].pl_no_lay # None
    /\ update_cumulative_totals(sheets[n], TRUE) # sheets[n]
    /\ update_cumulative_totals(sheets[n], TRUE)[2].cum_no_lay # sheets[n][2].pl_no_lay

(***************************************************************************)
(* C30: what the cumulative rescan leaves alone                            *)
(***************************************************************************)
\* a row with its three cumulative cells replaced by those of another row
WithCumOf(row, other) ==
  [row EXCEPT !.cum_no_lay = other.cum_no_lay,
              !.cum_half = other.cum_half,
              !.cum_full = other.cum_full]

\* C30: on every sheet the settlement can leave, the cumulative rescan keeps
\* the number of rows, changes nothing but the three cumulative cells of the
\* rows that have a P/L value (date, time, venue, race, horse, bookmaker,
\* prices, EVs, result and P/L cells of every row stay as they were), and
\* leaves every cell of a row without a P/L value as it was.
C30_RescanFrame ==
  \A n \in SheetNames : \A ok \in BOOLEAN :
    LET rows == sheets[n]
        after == update_cumulative_totals(rows, ok)
    IN  /\ Len(after) = Len(rows)
        /\ \A i \in 1..Len(rows) :
             /\ WithCumOf(after[i], rows[i]) = rows[i]
             /\ rows[i].pl_no_lay = None => after[i] = rows[i]

\* C30 happens: a sheet holds a row with a P/L value whose cumulative cells a
\* rescan would change, next to a row that has no result yet
C30_Witness ==
  \E n \in SheetNames :
    /\ Len(sheets[n]) = 2
    /\ \E i, j \in 1..2 :
         /\ sheets[n][i].pl_no_lay # None
         /\ update_cumulative_totals(sheets[n], TRUE)[i] # sheets[n][i]
         /\ sheets[n][j].result = None
         /\ sheets[n][j].pl_no_lay = None

(***************************************************************************)
(* C24: rows per race and checkpoint across restarts                       *)
(***************************************************************************)
\* the number of rows a sheet holds for a race of the catalog
RowCount(n, r) == Cardinality(RowsOfRace(sheets[n], BotCatalog[r]))

\* the race is inside, or already past, the window of the sheet's checkpoint
InsideWindow(n, r) == r \in RacesInWindow(TimingOfSheet(n))

PastWindow(n, r) ==
  BotCatalog[r].start_time - now < WindowLow(TimingOfSheet(n))

BeforeWindow(n, r) ==
  BotCatalog[r].start_time - now > WindowHigh(TimingOfSheet(n))

Rates == {0, 8, 10}

\* the lay commission cost (1 - 1/Lw) * c * (B - 1) / Lw, in EV units
CommissionCost(B, Lw, c) ==
  ((SCALE - (SCALE * 100) \div Lw) * c * (B - 100)) \div (100 * Lw)

\* C25: for every priced (runner, bookmaker) pair of a returned 2/3 or
\* free-hit snapshot, with its prices held fixed and for every commission
\* rate: the no-lay EV is the same at every rate; the full-lay EV is the
\* no-lay EV minus the whole commission cost; and the half-lay EV is the
\* no-lay EV minus half of that cost, i.e. the midpoint of the other two (to
\* the last digit of the fixed-point representation).
C25_HedgeModes ==
  (aggPc = "done" /\ aggResult # None /\ Val(aggResult).promo \in {"2/3", "free_hit"}) =>
    \A i \in 1..Len(Val(aggResult).runners) : \A b \in Bookies :
      LET r == Val(aggResult).runners[i]
          ev(mode, c) == PromoEV(r[b].odds, r.lay_win, r.lay_place,
                                 Val(aggResult).promo, mode, c)
      IN  ev("no_lay", 0) # None =>
            \A c \in Rates :
              LET cost == CommissionCost(Val(r[b].odds), Val(r.lay_win), c)
                  no_lay == Val(ev("no_lay", c))
                  half == Val(ev("half_lay", c))
                  full == Val(ev("lay", c))
              IN  /\ ev("no_lay", c) = ev("no_lay", 0)
                  /\ full = no_lay - cost
                  /\ half = no_lay - (cost \div 2)
                  /\ 2 * half - (no_lay + full) \in {0, 1}

\* C25 happens: a returned 2/3 snapshot holds a priced pair whose commission
\* cost at the NSW rate is more than one unit, so that the three modes differ
C25_Witness ==
  /\ aggPc = "done"
  /\ aggResult # None
  /\ Val(aggResult).promo = "2/3"
  /\ \E i \in 1..Len(Val(aggResult).runners) : \E b \in Bookies :
       LET r == Val(aggResult).runners[i]
       IN  /\ r[b].ev # None
           /\ CommissionCost(Val(r[b].odds), Val(r.lay_win), 10) > 1
           /\ PromoEV(r[b].odds, r.lay_win, r.lay_place, "2/3", "half_lay", 10)
                # PromoEV(r[b].odds, r.lay_win, r.lay_place, "2/3", "lay", 10)

(***************************************************************************)
(* C26: a settled row stays as it was settled                              *)
(***************************************************************************)
\* C26: no step (a manual settle, or an iteration of a reconciliation cycle
\* whose pending list was read earlier) changes the result label or a P/L
\* cell of a row that already has a result.
C26_SettledRowKept ==
  [][\A n \in SheetNames : \A i \in 1..Len(sheets[n]) :
       sheets[n][i].result # None =>
         /\ i <= Len(sheets'[n])
         /\ sheets'[n][i].result = sheets[n][i].result
         /\ sheets'[n][i].pl_no_lay = sheets[n][i].pl_no_lay
         /\ sheets'[n][i].pl_half = sheets[n][i].pl_half
         /\ sheets'[n][i].pl_full = sheets[n][i].pl_full]_vars

(***************************************************************************)
(* C27: every row with an available result is eventually settled           *)
(***************************************************************************)
\* row i of sheet n has no result, is due, and the results source holds a
\* non-void position for its horse
Settleable(n, i) ==
  /\ i <= Len(sheets[n])
  /\ sheets[n][i].result = None
  /\ now - RaceDt(sheets[n][i]) > PENDING_AFTER
  /\ LET r == RaceOf(sheets[n][i].date, sheets[n][i].venue, sheets[n][i].race)
     IN  /\ r # 0
         /\ official[r] # None
         /\ sheets[n][i].horse \in DOMAIN Val(official[r])
         /\ Val(official[r])[sheets[n][i].horse] # 0 - 1

\* C27: under repeated reconciliation cycles whose lookups and sheet calls
\* succeed again and again, every row that has no result, whose race is over
\* and whose horse has a non-void result available is eventually given a
\* result, also when the sheet holds another row of the same race: from some
\* moment on no such row is left.
C27_EventuallySettled ==
  <>[](\A n \in SheetNames : \A i \in 1..MaxRows : ~Settleable(n, i))

(***************************************************************************)
(* C28: the full-lay EV of a logged row                                    *)
(***************************************************************************)
\* C28: the full-lay EV cell of every row logged from the full-lay snapshot
\* get_next_race returned holds the EV that snapshot reports for the row's
\* (runner, bookmaker) pair, rounded to the cell's one decimal, whatever the
\* commission rate of the race's jurisdiction.
C28_RowEvIsSnapshotEv ==
  \A n \in SheetNames : \A r \in 1..Len(sheets[n]) :
    /\ aggResult # None
    /\ Val(aggResult).lay_mode = "lay"
    /\ \E i \in 1..Len(Val(aggResult).runners) :
         /\ Val(aggResult).runners[i].horse_number = sheets[n][r].horse
         /\ sheets[n][r].ev_full_lay =
              EvCell(Val(aggResult).runners[i][sheets[n][r].bookie].ev)

(***************************************************************************)
(* C29: the fan-out rounds of one get_next_race call                       *)
(***************************************************************************)
\* a reference catalog with one open race more than the list may hold
LongCatalog ==
  [i \in 1..(LIMIT + 1) |->
     [venue |-> "Sandown", race_number |-> i, market_id |-> i,
      status |-> "OPEN", start_time |-> 60 * i]]

\* the position in the candidate list of the race a snapshot is about
PositionOf(snapshot) ==
  CHOOSE k \in 1..Len(upcoming_races) : SameRace(snapshot, upcoming_races[k])

\* C29: within one get_next_race call the candidate list holds at most LIMIT
\* (20) races, also when the reference catalog lists more; no candidate is
\* fanned out twice; the number of fan-out rounds never exceeds the number of
\* listed candidates; when a snapshot is returned no candidate listed after
\* its race has been fanned out; and while the loop runs every round is for
\* the next candidate not yet fanned out, so that the call ends after at most
\* one round per listed candidate.
C29_OneRoundPerCandidate ==
  /\ [](/\ Len(upcoming_races) <= LIMIT
        /\ Len(find_upcoming_races(LongCatalog, 0, LIMIT)) = LIMIT
        /\ \A j, k \in 1..Len(fanLog) :
             j # k => fanLog[j].market_id # fanLog[k].market_id
        /\ Len(fanLog) <= Len(upcoming_races)
        /\ (aggPc = "loop" => idx = Len(fanLog) + 1 /\ idx <= Len(upcoming_races))
        /\ (aggPc = "done" /\ aggResult # None) =>
             \A k \in 1..Len(fanLog) :
               \E p \in 1..PositionOf(Val(aggResult)) :
                 upcoming_races[p].market_id = fanLog[k].market_id)
  /\ [][aggPc = "loop" =>
          /\ Len(fanLog') = Len(fanLog) + 1
          /\ aggPc' \in {"loop", "done"}
          /\ (aggPc' = "loop" => idx' = idx + 1)]_vars

\* C29 happens: the call returned the second of three listed candidates after
\* two fan-out rounds, the third never having been fanned out
C29_Witness ==
  /\ aggPc = "done"
  /\ aggResult # None
  /\ Len(upcoming_races) = 3
  /\ Len(fanLog) = 2
  /\ PositionOf(Val(aggResult)) = 2


====
